---- MODULE Spec2Model ----
(***************************************************************************)
(* super-lazy-clangd: the LSP session engine (Server::run and its          *)
(* dispatchers in src/src/lsp_server.cpp), the detached request workers,   *)
(* the grep child they supervise (src/unnamed/part_001) and the framed     *)
(* output stream (src/unnamed/part_000).                                   *)
(*                                                                         *)
(* Threads: the main thread (thread 0) runs Server::run; every             *)
(* asynchronous request n (n = its position in the input) owns a detached  *)
(* worker thread n and an InFlight object n.                               *)
(***************************************************************************)
EXTENDS Integers, Sequences, FiniteSets, TLC

\* ------------------------------------------------------------------ bounds
\* Number of framed messages the main loop reads in one run.
MaxMsgs == 3
\* Number of those that are requests.
MaxReqs == 2
\* Number of admitted lines one grep child can produce.
MaxLines == 1
\* Length of a line of grep's output.
MaxLineLen == 5
\* Length of a document passed to wordAt.
MaxTextLen == 4
\* Number of matches the search hands to the ranker.
MaxMatches == 3
\* if (ranked[i].score >= 60): the score of a strong match.
StrongScore == 60

\* --------------------------------------------------------------- constants
\* InFlight::grep_pid starts at -1 ("no child").
NoPid == -1
\* JSON-RPC error codes used by the server.
MethodNotFound == -32601
InternalError == -32603
RequestCancelled == -32800
\* Server::run has not returned.
NotReturned == -1
\* std::string::npos
Npos == -1

VARIABLES
  reqs,                \* the requests Server::run has dispatched, in order of arrival
  nread,               \* number of messages Server::run has dispatched
  last,                \* history: the message dispatched last
  mainPc,              \* position of the main thread
  mainMsg,             \* the message the main thread is about to write
  shutdown_received_,  \* Server::shutdown_received_
  exit_requested_,     \* Server::exit_requested_
  clangd_file_status_, \* Server::clangd_file_status_
  docs_by_uri_,        \* Server::docs_by_uri_
  inflight_,           \* Server::inflight_: key -> InFlight object
  cancelled,           \* InFlight::cancelled, per InFlight object
  grep_pid,            \* InFlight::grep_pid, per InFlight object
  wpc,                 \* position of each worker thread
  result,              \* what each worker is replying
  child,               \* state of each worker's grep child process
  collected,           \* runGrep's `collected`, per worker
  send_mu_,            \* Server::send_mu_: the thread holding it, or Free
  out,                 \* the bytes written to the output stream, in chunks
  cancel_at,           \* history: where the worker stood when its flag was first set
  exit_status,         \* what Server::run returned (and main with it), NotReturned before
  doc_log,             \* history: the document notifications dispatched, in order
  log_at,              \* history: Len(doc_log) when each request was dispatched
  look_at,             \* history: Len(doc_log) when each handler looked its document up
  seen,                \* the document text each handler resolved its word from
  in_,                 \* Transport::in_: the bytes of the input stream not yet read
  sent,                \* history: the frames the client put on the input stream
  got,                 \* history: the bodies Transport::readMessage has returned
  log_,                \* Transport::log_: the lines written to the log
  rg,                  \* a direct call of runGrep: its arguments, locals and child
  call                 \* a direct call of another function: its arguments and result

vars == <<reqs, nread, last, mainPc, mainMsg, shutdown_received_, exit_requested_,
          clangd_file_status_, docs_by_uri_, inflight_, cancelled, grep_pid,
          wpc, result, child, collected, send_mu_, out, cancel_at,
          exit_status, doc_log, log_at, look_at, seen, in_, sent, got, log_, rg, call>>

mainVars == <<mainPc, mainMsg, shutdown_received_, exit_requested_,
              clangd_file_status_, docs_by_uri_>>
histVars == <<exit_status, doc_log, log_at>>
flightVars == <<inflight_, cancelled, grep_pid, cancel_at>>
workerVars == <<wpc, result, child, collected>>
docVars == <<look_at, seen>>
transportVars == <<in_, sent, got, log_>>

\* ---------------------------------------------------------------- messages
Slots == 1..MaxReqs
MainThread == 0
Free == -1

NoId == [t |-> "none", text |-> ""]
JsonIds == {[t |-> "number", text |-> "1"], [t |-> "string", text |-> "abc"]}

SyncMethods == {"initialize", "shutdown", "workspace/executeCommand",
                "textDocument/switchSourceHeader"}
AsyncMethods == {"workspace/symbol", "textDocument/hover",
                 "textDocument/definition", "textDocument/references"}
UnknownMethods == {"textDocument/completion", "exit"}
DocNotificationMethods == {"textDocument/didOpen", "textDocument/didChange",
                           "textDocument/didClose"}
IgnoredNotifications == {"initialized", "$/setTrace", "workspace/didChangeConfiguration"}

Uris == {"file:///a.c"}

\* The params of a message, as far as the server looks at them:
\*   opt  "none"             an object without the members below
\*        "clangdFileStatus" initializationOptions.clangdFileStatus = true
\*        "doc"              textDocument.uri / text / contentChanges[0].text
\*        "no_changes"       textDocument.uri and an empty contentChanges array
\*        "initializationOptions"  initializationOptions is an object that does
\*                           not hold clangdFileStatus = true
\*        "query"            query (in text)
\*        "bad"              params is not a JSON object (an array, a string, null)
\*   ch   position.character (position.line is 0: documents are one line long)
Params(opt, uri, text) == [opt |-> opt, uri |-> uri, text |-> text, ch |-> 0]
At(arg, ch) == [arg EXCEPT !.ch = ch]
NoParams == Params("none", "", "")
BadParams == Params("bad", "", "")
\* A didChange with two content changes: text is contentChanges[0].text and
\* more is contentChanges[1].text.
TwoChanges(uri, first, second) ==
  [opt |-> "doc", uri |-> uri, text |-> first, ch |-> 0, more |-> second]

Request(method, id, arg) == [isReq |-> TRUE, method |-> method, id |-> id, arg |-> arg]
Notification(method, id, arg) == [isReq |-> FALSE, method |-> method, id |-> id, arg |-> arg]

\* The requests and notifications a client can put on the input stream.
Requests ==
  {Request(m, i, NoParams) : m \in (SyncMethods \cup AsyncMethods \cup UnknownMethods), i \in JsonIds}
  \cup {Request("initialize", i, Params("clangdFileStatus", "", "")) : i \in JsonIds}
Notifications ==
  {Notification(m, NoId, NoParams) : m \in IgnoredNotifications \cup {"exit"}}
  \cup {Notification("$/cancelRequest", i, NoParams) : i \in JsonIds \cup {NoId}}
  \cup {Notification("textDocument/didOpen", NoId, Params("doc", u, "foo")) : u \in Uris}
  \cup {Notification("textDocument/didOpen", NoId, BadParams)}

\* id.dump(): the JSON text of the id; a string id keeps its quotes.
inflightKey(id) == IF id.t = "string" THEN "\"" \o id.text \o "\"" ELSE id.text

\* ------------------------------------------------------------ output stream
\* val is the result, the error's message or the notification's method; uri and
\* state are the members of a notification's params.
NoMsg == [req |-> 0, id |-> NoId, kind |-> "none", code |-> 0, val |-> "", uri |-> "", state |-> ""]
ResultMsg(n, id, val) ==
  [req |-> n, id |-> id, kind |-> "result", code |-> 0, val |-> val, uri |-> "", state |-> ""]
ErrorMsg(n, id, code, message) ==
  [req |-> n, id |-> id, kind |-> "error", code |-> code, val |-> message, uri |-> "", state |-> ""]
NotificationMsg(method, uri, state) ==
  [req |-> 0, id |-> NoId, kind |-> "notification", code |-> 0, val |-> method,
   uri |-> uri, state |-> state]

\* Transport::writeMessage writes the header, then the body.
Header(m) == [part |-> "header", msg |-> m]
Body(m) == [part |-> "body", msg |-> m]

\* std::lock_guard<std::mutex> lg(send_mu_): blocks until the mutex is free.
LockSendMuNever(t) == TRUE
LockSendMu(t) == send_mu_ = Free

\* replyResult / replyError / sendNotification up to the header of writeMessage.
WriteBegin(t, m) ==
  /\ LockSendMu(t)
  /\ send_mu_' = t
  /\ out' = Append(out, Header(m))

\* The body of writeMessage, the flush, and the lock_guard's release.
WriteEnd(t, m) ==
  /\ out' = Append(out, Body(m))
  /\ send_mu_' = Free

\* What cancel_at records: the worker's position, its child's state and the
\* published pid when the flag was first set, and whether the cancel was the
\* message right after the request.
NeverCancelled == [pc |-> "never", child |-> "none", pid |-> NoPid, next |-> FALSE]
CancelRecord(s) == [pc |-> wpc[s], child |-> child[s], pid |-> grep_pid[s],
                    next |-> last.isReq /\ s = Len(reqs)]

\* runGrep has not been called directly.
NotCalled == [pc |-> "none"]

\* ------------------------------------------------------------------- Init
\* The server after construction, its streams aside.
ServerInit ==
  /\ reqs = <<>>
  /\ nread = 0
  /\ last = Notification("none", NoId, NoParams)
  /\ mainPc = "read"
  /\ mainMsg = NoMsg
  /\ shutdown_received_ = FALSE
  /\ exit_requested_ = FALSE
  /\ clangd_file_status_ = FALSE
  /\ docs_by_uri_ = <<>>
  /\ inflight_ = <<>>
  /\ cancelled = [s \in Slots |-> FALSE]
  /\ grep_pid = [s \in Slots |-> NoPid]
  /\ wpc = [s \in Slots |-> "none"]
  /\ result = [s \in Slots |-> "none"]
  /\ child = [s \in Slots |-> "none"]
  /\ collected = [s \in Slots |-> 0]
  /\ send_mu_ = Free
  /\ out = <<>>
  /\ cancel_at = [s \in Slots |-> NeverCancelled]
  /\ exit_status = NotReturned
  /\ doc_log = <<>>
  /\ log_at = [s \in Slots |-> 0]
  /\ look_at = [s \in Slots |-> 0]
  /\ seen = [s \in Slots |-> "unread"]
  /\ log_ = <<>>
  /\ got = <<>>

\* The input is not followed byte by byte: the loop's messages are drawn one by
\* one in handleMessage.
Init ==
  /\ ServerInit
  /\ in_ = <<>>
  /\ sent = <<>>
  /\ rg = NotCalled
  /\ call = NotCalled

\* ------------------------------------------------------------ main thread
\* Server::onInitialize: records the clangdFileStatus option, returns capabilities.
\* The flag is assigned only if initializationOptions is an object.
onInitialize(arg) ==
  clangd_file_status_' =
    CASE arg.opt = "clangdFileStatus" -> TRUE
      [] arg.opt = "initializationOptions" -> FALSE
      [] OTHER -> clangd_file_status_

\* inflight_[inflightKey(id)] = inflight, under inflight_mu_.
RegisterInflightNoop(key, n) == inflight_
RegisterInflightKeepsFirst(key, n) == inflight_ @@ (key :> n)
RegisterInflight(key, n) == (key :> n) @@ inflight_

\* The response a synchronous branch of Server::handleRequest hands to
\* replyResult / replyError.
SyncResponseAlwaysNull(n, msg) == ResultMsg(n, msg.id, "null")
SyncResponse(n, msg) ==
  CASE msg.method = "initialize" -> ResultMsg(n, msg.id, "capabilities")
    [] msg.method \in SyncMethods \ {"initialize"} -> ResultMsg(n, msg.id, "null")
    [] OTHER -> ErrorMsg(n, msg.id, MethodNotFound, "Method not found: " \o msg.method)

\* The synchronous branches of Server::handleRequest: the state change and the
\* reply, which the main thread writes before it returns to the loop.
handleRequestSyncNoReply(n, msg) ==
  /\ msg.method \notin AsyncMethods
  /\ shutdown_received_' = IF msg.method = "shutdown" THEN TRUE ELSE shutdown_received_
  /\ UNCHANGED <<clangd_file_status_, mainMsg, mainPc>>
  /\ UNCHANGED <<exit_requested_, docs_by_uri_, flightVars, workerVars>>
handleRequestSync(n, msg) ==
  /\ msg.method \notin AsyncMethods
  /\ shutdown_received_' = IF msg.method = "shutdown" THEN TRUE ELSE shutdown_received_
  /\ IF msg.method = "initialize"
       THEN onInitialize(msg.arg)
       ELSE UNCHANGED clangd_file_status_
  /\ mainMsg' = SyncResponse(n, msg)
  /\ mainPc' = "send"
  /\ UNCHANGED <<exit_requested_, docs_by_uri_, flightVars, workerVars>>

\* The asynchronous branches of Server::handleRequest: make the InFlight object,
\* register it under the id's key, start the detached worker, return.
handleRequestAsync(n, msg) ==
  /\ msg.method \in AsyncMethods
  /\ inflight_' = RegisterInflight(inflightKey(msg.id), n)
  /\ wpc' = [wpc EXCEPT ![n] = "start"]
  /\ UNCHANGED <<mainPc, mainMsg, shutdown_received_, exit_requested_, clangd_file_status_,
                 docs_by_uri_, cancelled, grep_pid, cancel_at, result, child, collected>>

handleRequest(n, msg) == handleRequestSync(n, msg) \/ handleRequestAsync(n, msg)

\* kill(pid, SIGTERM): a running grep child dies; any other pid state is unaffected.
SigtermNotSent(ch, pid) == ch
Sigterm(ch, pid) ==
  IF pid \in Slots /\ ch[pid] = "running" THEN [ch EXCEPT ![pid] = "killed"] ELSE ch

\* The InFlight object the $/cancelRequest handler finds under params.id, or 0.
LookupInflightStale(id) ==
  IF \E s \in 1..Len(reqs) : reqs[s].id = id /\ wpc[s] # "none"
    THEN CHOOSE s \in 1..Len(reqs) : reqs[s].id = id /\ wpc[s] # "none"
    ELSE 0
LookupInflight(id) ==
  IF id # NoId /\ inflightKey(id) \in DOMAIN inflight_ THEN inflight_[inflightKey(id)] ELSE 0

\* inflight->cancelled.store(true, std::memory_order_release)
StoreCancelledFlips(s) == [cancelled EXCEPT ![s] = ~@]
StoreCancelledAll(s) == [r \in DOMAIN cancelled |-> TRUE]
StoreCancelled(s) == [cancelled EXCEPT ![s] = TRUE]

\* $/cancelRequest in Server::handleNotification.
onCancelRequest(msg) ==
  LET s == LookupInflight(msg.id) IN
  IF s = 0
    THEN UNCHANGED <<cancelled, cancel_at, child>>
    ELSE /\ cancelled' = StoreCancelled(s)
         /\ cancel_at' = IF cancelled[s] THEN cancel_at
                         ELSE [cancel_at EXCEPT ![s] = CancelRecord(s)]
         /\ child' = IF grep_pid[s] > 0 THEN Sigterm(child, grep_pid[s]) ELSE child

\* params.value("textDocument", ...) on params that is not a JSON object throws
\* json::type_error; nothing between the handler and main catches it.
ValueThrows(arg) == arg.opt = "bad"

\* The exception leaves Server::run and main: std::terminate ends the process.
Terminate ==
  /\ mainPc' = "crashed"
  /\ UNCHANGED <<mainMsg, docs_by_uri_>>

\* sendNotification("textDocument/clangd.fileStatus") if the client asked for it.
AnnounceFileStatusAlways(uri) ==
  /\ mainMsg' = NotificationMsg("textDocument/clangd.fileStatus", uri, "Idle")
  /\ mainPc' = "send"
AnnounceFileStatus(uri) ==
  IF clangd_file_status_
    THEN /\ mainMsg' = NotificationMsg("textDocument/clangd.fileStatus", uri, "Idle")
         /\ mainPc' = "send"
    ELSE UNCHANGED <<mainMsg, mainPc>>

\* docs_by_uri_ without the entry of uri.
EraseDocNever(uri) == docs_by_uri_
EraseDoc(uri) == [u \in DOMAIN docs_by_uri_ \ {uri} |-> docs_by_uri_[u]]

\* Server::onDidOpen: stores the text; announces the file status if asked to.
onDidOpen(msg) ==
  CASE ValueThrows(msg.arg) -> Terminate
    [] ~ValueThrows(msg.arg) /\ msg.arg.uri = "" -> UNCHANGED <<docs_by_uri_, mainMsg, mainPc>>
    [] OTHER ->
         /\ docs_by_uri_' = (msg.arg.uri :> msg.arg.text) @@ docs_by_uri_
         /\ AnnounceFileStatus(msg.arg.uri)

\* docs_by_uri_[uri].text = std::move(text): operator[] makes the entry if the
\* map has none.
StoreTextIfOpen(uri, text) ==
  IF uri \in DOMAIN docs_by_uri_ THEN (uri :> text) @@ docs_by_uri_ ELSE docs_by_uri_
StoreText(uri, text) == (uri :> text) @@ docs_by_uri_

\* Server::onDidChange: replaces the text by the first content change's text.
onDidChange(msg) ==
  CASE ValueThrows(msg.arg) -> Terminate
    [] ~ValueThrows(msg.arg) /\ (msg.arg.uri = "" \/ msg.arg.opt = "no_changes") ->
         UNCHANGED <<docs_by_uri_, mainMsg, mainPc>>
    [] OTHER ->
         /\ docs_by_uri_' = StoreText(msg.arg.uri, msg.arg.text)
         /\ AnnounceFileStatus(msg.arg.uri)

\* Server::onDidClose: erases the entry.
onDidClose(msg) ==
  CASE ValueThrows(msg.arg) -> Terminate
    [] ~ValueThrows(msg.arg) /\ msg.arg.uri = "" -> UNCHANGED <<docs_by_uri_, mainMsg, mainPc>>
    [] OTHER ->
         /\ docs_by_uri_' = EraseDoc(msg.arg.uri)
         /\ UNCHANGED <<mainMsg, mainPc>>

\* Server::handleNotification.
handleNotification(msg) ==
  /\ CASE msg.method = "exit" ->
            /\ exit_requested_' = TRUE
            /\ UNCHANGED <<mainPc, mainMsg, docs_by_uri_, cancelled, cancel_at, child>>
       [] msg.method = "$/cancelRequest" ->
            /\ onCancelRequest(msg)
            /\ UNCHANGED <<mainPc, mainMsg, docs_by_uri_, exit_requested_>>
       [] msg.method = "textDocument/didOpen" ->
            /\ onDidOpen(msg)
            /\ UNCHANGED <<exit_requested_, cancelled, cancel_at, child>>
       [] msg.method = "textDocument/didChange" ->
            /\ onDidChange(msg)
            /\ UNCHANGED <<exit_requested_, cancelled, cancel_at, child>>
       [] msg.method = "textDocument/didClose" ->
            /\ onDidClose(msg)
            /\ UNCHANGED <<exit_requested_, cancelled, cancel_at, child>>
       [] OTHER ->
            UNCHANGED <<mainPc, mainMsg, docs_by_uri_, exit_requested_, cancelled, cancel_at, child>>
  /\ doc_log' = IF msg.method \in DocNotificationMethods
                  THEN Append(doc_log, [method |-> msg.method, arg |-> msg.arg])
                  ELSE doc_log
  /\ UNCHANGED <<shutdown_received_, clangd_file_status_, inflight_, grep_pid,
                 wpc, result, collected>>

\* while (!exit_requested_)
LoopStopsAtShutdown == ~exit_requested_ /\ ~shutdown_received_
LoopIgnoresExit == TRUE
LoopContinues == ~exit_requested_

\* One iteration of the loop of Server::run that has read a message with a
\* method: Server::handleMessage from the lookup of "method" on.
handleParsed(msg) ==
  /\ mainPc = "read"
  /\ LoopContinues
  /\ nread < MaxMsgs
  /\ nread' = nread + 1
  /\ last' = msg
  /\ IF msg.isReq
       THEN /\ Len(reqs) < MaxReqs
            /\ reqs' = Append(reqs, msg)
            /\ handleRequest(Len(reqs) + 1, msg)
            /\ log_at' = [log_at EXCEPT ![Len(reqs) + 1] = Len(doc_log)]
            /\ UNCHANGED doc_log
       ELSE /\ UNCHANGED <<reqs, log_at>>
            /\ handleNotification(msg)
  /\ UNCHANGED <<send_mu_, out, exit_status, docVars, rg, call>>

\* ... with the message drawn from the client's repertoire instead of the bytes
\* of the input stream.
handleMessage(msg) ==
  /\ handleParsed(msg)
  /\ UNCHANGED transportVars

\* return shutdown_received_ ? 0 : 1;
RunReturnInverted == IF shutdown_received_ THEN 1 ELSE 0
RunReturn == IF shutdown_received_ THEN 0 ELSE 1

\* readMessage returns nullopt (end of input, a framing error): the loop breaks,
\* run returns and main returns with it: the process ends and takes its detached
\* threads along.
ReadEof ==
  /\ mainPc = "read"
  /\ LoopContinues
  /\ mainPc' = "exited"
  /\ exit_status' = RunReturn
  /\ UNCHANGED <<reqs, nread, last, mainMsg, shutdown_received_, exit_requested_, clangd_file_status_,
                 docs_by_uri_, doc_log, log_at, docVars, transportVars, rg, call, flightVars, workerVars, send_mu_, out>>

\* while (!exit_requested_) fails: run and main return, the process ends.
LoopExit ==
  /\ mainPc = "read"
  /\ ~LoopContinues
  /\ mainPc' = "exited"
  /\ exit_status' = RunReturn
  /\ UNCHANGED <<reqs, nread, last, mainMsg, shutdown_received_, exit_requested_, clangd_file_status_,
                 docs_by_uri_, doc_log, log_at, docVars, transportVars, rg, call, flightVars, workerVars, send_mu_, out>>

\* The main thread's replyResult / replyError / sendNotification: lock and header.
MainWriteBegin ==
  /\ mainPc = "send"
  /\ WriteBegin(MainThread, mainMsg)
  /\ mainPc' = "writing"
  /\ UNCHANGED <<reqs, nread, last, mainMsg, shutdown_received_, exit_requested_, clangd_file_status_,
                 docs_by_uri_, histVars, docVars, transportVars, rg, call, flightVars, workerVars>>

\* ... body, flush, unlock; back to the head of the loop.
MainWriteEnd ==
  /\ mainPc = "writing"
  /\ WriteEnd(MainThread, mainMsg)
  /\ mainPc' = "read"
  /\ mainMsg' = NoMsg
  /\ UNCHANGED <<reqs, nread, last, shutdown_received_, exit_requested_, clangd_file_status_,
                 docs_by_uri_, histVars, docVars, transportVars, rg, call, flightVars, workerVars>>

\* ---------------------------------------------------------- worker threads
\* A worker runs only while the process lives.
WorkersOutliveMain == TRUE
ProcessAlive == mainPc \notin {"exited", "crashed"}

Method(s) == reqs[s].method

\* The max_results each handler passes to the search.
MaxResults(method) ==
  CASE method = "textDocument/hover" -> 1
    [] method = "textDocument/definition" -> 20
    [] OTHER -> 50

\* The handlers' "no result" value: nullResult() or json::array().
NoResult(method) ==
  IF method \in {"textDocument/hover", "textDocument/definition"} THEN "null" ELSE "[]"

\* What a handler returns after a search that collected c matches.
HandlerResult(method, c) == IF c = 0 THEN NoResult(method) ELSE "matches"

\* The worker lambda starts and the handler resolves its input, up to the call of
\* the search:
\*  - params of the wrong JSON type make params.value throw (hover, definition,
\*    references): the worker's catch replies -32603;
\*  - a missing uri, an unknown document, a comment, a stop word or an empty
\*    needle: the handler returns its no-result value without a search child;
\*  - else the handler calls the search with its needle.
WorkerStart(s) ==
  /\ ProcessAlive
  /\ wpc[s] = "start"
  /\ \E input \in {"throws", "no_result", "search"} :
       CASE input = "throws" ->
              /\ Method(s) # "workspace/symbol"
              /\ wpc' = [wpc EXCEPT ![s] = "reply"]
              /\ result' = [result EXCEPT ![s] = "internal"]
         [] input = "no_result" ->
              /\ wpc' = [wpc EXCEPT ![s] = "check"]
              /\ UNCHANGED result
         [] OTHER ->
              /\ wpc' = [wpc EXCEPT ![s] = "grep"]
              /\ UNCHANGED result
  /\ UNCHANGED <<reqs, nread, last, mainVars, histVars, docVars, transportVars, rg, call, flightVars, child, collected, send_mu_, out>>

\* The search finds the caller's cancelled flag already set and spawns nothing.
CancelledBeforeSpawn(s) == cancelled[s]

\* The pid of worker s's child.
Pid(s) == s

\* runGrep with a non-empty needle and max_results > 0: pipe and fork. A failed
\* pipe or fork returns the empty result; otherwise the child runs.
RunGrepSpawn(s) ==
  /\ ProcessAlive
  /\ wpc[s] = "grep"
  /\ \/ /\ CancelledBeforeSpawn(s)
        /\ wpc' = [wpc EXCEPT ![s] = "check"]
        /\ UNCHANGED child
     \/ /\ ~CancelledBeforeSpawn(s)
        /\ \E forked \in BOOLEAN :
             IF forked
               THEN /\ child' = [child EXCEPT ![s] = "running"]
                    /\ wpc' = [wpc EXCEPT ![s] = "forked"]
               ELSE /\ wpc' = [wpc EXCEPT ![s] = "check"]
                    /\ UNCHANGED child
  /\ UNCHANGED <<reqs, nread, last, mainVars, histVars, docVars, transportVars, rg, call, flightVars, result, collected, send_mu_, out>>

\* The parent publishes the child's pid into the caller's atomic slot, then opens
\* the read end of the pipe.
PublishPid(s) ==
  /\ ProcessAlive
  /\ wpc[s] = "forked"
  /\ grep_pid' = [grep_pid EXCEPT ![s] = Pid(s)]
  /\ wpc' = [wpc EXCEPT ![s] = "reading"]
  /\ UNCHANGED <<reqs, nread, last, mainVars, histVars, docVars, transportVars, rg, call, inflight_, cancelled, cancel_at, result, child,
                 collected, send_mu_, out>>

\* fdopen fails: the parent kills the child, reaps it and returns the empty result.
FdopenFails(s) ==
  /\ ProcessAlive
  /\ wpc[s] = "reading"
  /\ collected[s] = 0
  /\ child[s] \in {"running", "killed", "exited"}
  /\ child' = [child EXCEPT ![s] = "reaped"]
  /\ wpc' = [wpc EXCEPT ![s] = "check"]
  /\ UNCHANGED <<reqs, nread, last, mainVars, histVars, docVars, transportVars, rg, call, flightVars, result, collected, send_mu_, out>>

\* One round of the read loop that admits a match. At max_results the parent
\* sends SIGTERM to the child, stops reading, closes the pipe, waits for the
\* child and returns.
ReadLine(s) ==
  /\ ProcessAlive
  /\ wpc[s] = "reading"
  /\ child[s] = "running"
  /\ collected[s] < MaxLines
  /\ collected' = [collected EXCEPT ![s] = @ + 1]
  /\ IF collected[s] + 1 >= MaxResults(Method(s))
       THEN /\ child' = [child EXCEPT ![s] = "reaped"]
            /\ wpc' = [wpc EXCEPT ![s] = "check"]
       ELSE UNCHANGED <<child, wpc>>
  /\ UNCHANGED <<reqs, nread, last, mainVars, histVars, docVars, transportVars, rg, call, flightVars, result, send_mu_, out>>

\* getline returns <= 0 (the child ended or was killed): fclose, waitpid, return.
PipeEof(s) ==
  /\ ProcessAlive
  /\ wpc[s] = "reading"
  /\ child[s] \in {"killed", "exited"}
  /\ child' = [child EXCEPT ![s] = "reaped"]
  /\ wpc' = [wpc EXCEPT ![s] = "check"]
  /\ UNCHANGED <<reqs, nread, last, mainVars, histVars, docVars, transportVars, rg, call, flightVars, result, collected, send_mu_, out>>

\* The read loop sees the cancelled flag: it stops the child, stops reading, waits
\* for the child and returns what it collected.
ReadCancelled(s) ==
  /\ ProcessAlive
  /\ wpc[s] = "reading"
  /\ cancelled[s]
  /\ child' = [child EXCEPT ![s] = "reaped"]
  /\ wpc' = [wpc EXCEPT ![s] = "check"]
  /\ UNCHANGED <<reqs, nread, last, mainVars, histVars, docVars, transportVars, rg, call, flightVars, result, collected, send_mu_, out>>

\* The grep child finishes on its own.
ChildExit(s) ==
  /\ ProcessAlive
  /\ child[s] = "running"
  /\ child' = [child EXCEPT ![s] = "exited"]
  /\ UNCHANGED <<reqs, nread, last, mainVars, histVars, docVars, transportVars, rg, call, flightVars, wpc, result, collected, send_mu_, out>>

\* if (inflight->cancelled.load()) replyError(-32800) else replyResult(result).
ReplyChoiceIgnoresCancel(s) == "result"
ReplyChoiceAlwaysCancelled(s) == "cancelled"
ReplyChoiceOnlyIfChild(s) == IF cancelled[s] /\ child[s] # "none" THEN "cancelled" ELSE "result"
ReplyChoiceInverted(s) == IF cancelled[s] THEN "result" ELSE "cancelled"
ReplyChoice(s) == IF cancelled[s] THEN "cancelled" ELSE "result"

WorkerCheck(s) ==
  /\ ProcessAlive
  /\ wpc[s] = "check"
  /\ result' = [result EXCEPT ![s] = ReplyChoice(s)]
  /\ wpc' = [wpc EXCEPT ![s] = "reply"]
  /\ UNCHANGED <<reqs, nread, last, mainVars, histVars, docVars, transportVars, rg, call, flightVars, child, collected, send_mu_, out>>

\* The response a worker writes for what it is replying.
Response(s) ==
  CASE result[s] = "cancelled" -> ErrorMsg(s, reqs[s].id, RequestCancelled, "Request cancelled")
    [] result[s] = "internal" -> ErrorMsg(s, reqs[s].id, InternalError, "Internal error: ")
    [] OTHER -> ResultMsg(s, reqs[s].id, HandlerResult(Method(s), collected[s]))

\* resp.dump() in replyResult throws (a match holds bytes that are not UTF-8):
\* nothing is written and the worker's catch replies -32603 instead.
DumpThrows(s) ==
  /\ ProcessAlive
  /\ wpc[s] = "reply"
  /\ result[s] = "result"
  /\ collected[s] > 0
  /\ result' = [result EXCEPT ![s] = "internal"]
  /\ UNCHANGED <<reqs, nread, last, mainVars, histVars, docVars, transportVars, rg, call, flightVars, wpc, child, collected, send_mu_, out>>

\* The worker's replyResult / replyError: lock send_mu_, write the header.
WorkerReplyBegin(s) ==
  /\ ProcessAlive
  /\ wpc[s] = "reply"
  /\ WriteBegin(s, Response(s))
  /\ wpc' = [wpc EXCEPT ![s] = "writing"]
  /\ UNCHANGED <<reqs, nread, last, mainVars, histVars, docVars, transportVars, rg, call, flightVars, result, child, collected>>

\* ... the body, the flush, the unlock.
WorkerReplyEnd(s) ==
  /\ ProcessAlive
  /\ wpc[s] = "writing"
  /\ WriteEnd(s, Response(s))
  /\ wpc' = [wpc EXCEPT ![s] = "erase"]
  /\ UNCHANGED <<reqs, nread, last, mainVars, histVars, docVars, transportVars, rg, call, flightVars, result, child, collected>>

\* inflight_.erase(inflightKey(id)), under inflight_mu_.
EraseInflightNever(s) == inflight_
EraseInflightInsideTry(s) ==
  IF result[s] = "internal"
    THEN inflight_
    ELSE [k \in DOMAIN inflight_ \ {inflightKey(reqs[s].id)} |-> inflight_[k]]
EraseInflight(s) == [k \in DOMAIN inflight_ \ {inflightKey(reqs[s].id)} |-> inflight_[k]]

\* The last statement of the worker lambda; the thread ends.
WorkerErase(s) ==
  /\ ProcessAlive
  /\ wpc[s] = "erase"
  /\ inflight_' = EraseInflight(s)
  /\ wpc' = [wpc EXCEPT ![s] = "done"]
  /\ UNCHANGED <<reqs, nread, last, mainVars, histVars, docVars, transportVars, rg, call, cancelled, grep_pid, cancel_at, result, child,
                 collected, send_mu_, out>>

\* ------------------------------------------------------------- the program
Next ==
  \/ \E msg \in Requests \cup Notifications : handleMessage(msg)
  \/ ReadEof
  \/ LoopExit
  \/ MainWriteBegin
  \/ MainWriteEnd
  \/ \E s \in Slots :
       \/ WorkerStart(s)
       \/ RunGrepSpawn(s)
       \/ PublishPid(s)
       \/ FdopenFails(s)
       \/ ReadLine(s)
       \/ PipeEof(s)
       \/ ReadCancelled(s)
       \/ ChildExit(s)
       \/ WorkerCheck(s)
       \/ DumpThrows(s)
       \/ WorkerReplyBegin(s)
       \/ WorkerReplyEnd(s)
       \/ WorkerErase(s)

Spec == Init /\ [][Next]_vars

\* ------------------------------------------------- the handlers' documents
\* WorkerStart leaves open how a handler gets from its params to its needle.
\* DocSpec follows onHover through the document store instead: the client sends
\* hover requests for a document and didOpen / didChange / didClose
\* notifications; documents are one word long and the cursor is on that word.
DocUris == {"file:///a.c", "file:///b.c"}
Texts == {"foo", "if"}
HoverId == [t |-> "number", text |-> "1"]

DocRequests ==
  {Request("textDocument/hover", HoverId, Params("doc", "file:///a.c", "")),
   Request("textDocument/hover", HoverId, BadParams)}
DocNotifications ==
  {Notification("textDocument/didOpen", NoId, Params("doc", u, t)) : u \in DocUris, t \in Texts}
  \cup {Notification("textDocument/didChange", NoId, Params("doc", u, t)) : u \in DocUris, t \in Texts}
  \cup {Notification("textDocument/didChange", NoId, Params("no_changes", u, "")) : u \in DocUris}
  \cup {Notification("textDocument/didClose", NoId, Params("doc", u, "")) : u \in DocUris}
  \cup {Notification("textDocument/didChange", NoId, TwoChanges(u, "foo", "if")) : u \in DocUris}
  \cup {Notification("textDocument/didOpen", NoId, NoParams),
        Notification("textDocument/didChange", NoId, NoParams),
        Notification("textDocument/didChange", NoId, Params("doc", "", "foo")),
        Notification("textDocument/didClose", NoId, NoParams),
        Notification("textDocument/didClose", NoId, BadParams),
        Notification("exit", NoId, NoParams)}

\* isStopWord, on the words of Texts: the empty word and the keywords.
isStopWord(sym) == sym \in {"", "if"}

\* Documents with a line comment: one that is all comment, and one whose
\* comment follows the character literal '"'.
CommentOnly == "//foo"
CommentAfterQuote == "'\"'//x"
CursorTexts == Texts \cup {"", CommentOnly, CommentAfterQuote}

\* The characters of a document (std::string is a sequence of char).
Chars(text) ==
  CASE text = "" -> <<>>
    [] text = "foo" -> <<"f", "o", "o">>
    [] text = "if" -> <<"i", "f">>
    [] text = CommentOnly -> <<"/", "/", "f", "o", "o">>
    [] text = CommentAfterQuote -> <<"'", "\"", "'", "/", "/", "x">>
    [] OTHER -> <<"g", "a", "r", "b", "a", "g", "e">>

\* std::string(line.substr(...)): the string of a sequence of characters.
RECURSIVE Join(_)
Join(cs) == IF cs = <<>> THEN "" ELSE Head(cs) \o Join(Tail(cs))

\* std::min<int>
Min(a, b) == IF a < b THEN a ELSE b

\* is_word in wordAt: std::isalnum(x) || x == '_', on the characters of the
\* documents. Positions are counted from 0 as in the source: at(cs, k) is cs[k].
is_word(x) == x \in {"a", "b", "d", "e", "f", "g", "i", "n", "o", "r", "t", "v", "x", "_", "0", "1"}
at(cs, k) == cs[k + 1]

\* while (start > 0 && is_word(line[start - 1])) start--;
RECURSIVE WordStart(_, _)
WordStart(cs, k) == IF k > 0 /\ is_word(at(cs, k - 1)) THEN WordStart(cs, k - 1) ELSE k

\* while (end < line.size() && is_word(line[end])) end++;
RECURSIVE WordEnd(_, _)
WordEnd(cs, k) == IF k < Len(cs) /\ is_word(at(cs, k)) THEN WordEnd(cs, k + 1) ELSE k

\* while (L > 0 && !is_word(line[L]) && is_word(line[L - 1])) L--;
RECURSIVE StepBack(_, _)
StepBack(cs, k) ==
  IF k > 0 /\ ~is_word(at(cs, k)) /\ is_word(at(cs, k - 1)) THEN StepBack(cs, k - 1) ELSE k

\* wordAt from L on: start, end, the substring.
WordFrom(cs, k) ==
  IF WordEnd(cs, k) <= WordStart(cs, k)
    THEN <<>>
    ELSE SubSeq(cs, WordStart(cs, k) + 1, WordEnd(cs, k))

\* c = min(ch0, line.size()); L = c; if (L > 0 && L == line.size()) L--;
ClampedColumn(n, ch0) == IF n > 0 /\ Min(ch0, n) = n THEN n - 1 ELSE Min(ch0, n)

\* wordAt on the line it has found.
WordIn(ln, ch0) ==
  IF ln = <<>> THEN <<>>
  ELSE WordFrom(ln, StepBack(ln, ClampedColumn(Len(ln), ch0)))

\* The index of the first '\n' of cs (from 1), or 0.
NewlineAt(cs) ==
  IF \E i \in 1..Len(cs) : cs[i] = "\n"
    THEN CHOOSE i \in 1..Len(cs) : cs[i] = "\n" /\ \A j \in 1..(i - 1) : cs[j] # "\n"
    ELSE 0

\* wordAt's outer loop: the text is cut at each '\n' and at its end; the line
\* numbered line0 is looked at, if the text has that many lines.
RECURSIVE LineOf(_, _)
LineOf(cs, line0) ==
  IF NewlineAt(cs) = 0
    THEN [found |-> line0 = 0, ln |-> IF line0 = 0 THEN cs ELSE <<>>]
  ELSE IF line0 = 0
    THEN [found |-> TRUE, ln |-> SubSeq(cs, 1, NewlineAt(cs) - 1)]
  ELSE LineOf(SubSeq(cs, NewlineAt(cs) + 1, Len(cs)), line0 - 1)

\* wordAt on the characters of a text.
wordAtChars(cs, line0, ch0) ==
  IF line0 < 0 \/ ch0 < 0 THEN <<>>
  ELSE IF ~LineOf(cs, line0).found THEN <<>>
  ELSE WordIn(LineOf(cs, line0).ln, ch0)

\* wordAt: the word at or just before (line0, ch0).
wordAt(text, line0, ch0) == Join(wordAtChars(Chars(text), line0, ch0))

\* is_escaped_quote: an odd number of backslashes stands before pos.
RECURSIVE Backslashes(_, _)
Backslashes(cs, pos) ==
  IF pos > 0 /\ at(cs, pos - 1) = "\\" THEN 1 + Backslashes(cs, pos - 1) ELSE 0
is_escaped_quote(cs, pos) == Backslashes(cs, pos) % 2 = 1

\* if (line[j] == '"' && !is_escaped_quote(j)) in_string = !in_string;
Toggle(cs, j, in_string) ==
  IF at(cs, j) = "\"" /\ ~is_escaped_quote(cs, j) THEN ~in_string ELSE in_string

\* The scan of isInLineCommentAt: the first "//" met outside a string decides.
RECURSIVE ScanComment(_, _, _, _)
ScanComment(cs, j, in_string, col) ==
  IF j + 1 >= Len(cs) THEN FALSE
  ELSE IF ~Toggle(cs, j, in_string) /\ at(cs, j) = "/" /\ at(cs, j + 1) = "/"
    THEN col >= j
    ELSE ScanComment(cs, j + 1, Toggle(cs, j, in_string), col)

\* isInLineCommentAt: documents are one line long, so that line 0 is the whole
\* text and no other line is found.
isInLineCommentAt(text, line0, ch0) ==
  IF line0 < 0 \/ ch0 < 0 \/ line0 # 0 THEN FALSE
  ELSE ScanComment(Chars(text), 0, FALSE, Min(ch0, Len(Chars(text))))

\* if (isInLineCommentAt(text, line0, ch0)) return ...; sym = wordAt(...);
\* if (isStopWord(sym)) return ...: the handler returns without a search.
ReturnsEarly(text, ch0) ==
  isInLineCommentAt(text, 0, ch0) \/ isStopWord(wordAt(text, 0, ch0))

\* The logged notification e wrote or erased the entry of uri.
Mutates(e, uri) ==
  /\ ~ValueThrows(e.arg)
  /\ e.arg.uri = uri
  /\ uri # ""
  /\ ~(e.method = "textDocument/didChange" /\ e.arg.opt = "no_changes")

\* The main thread wrote or erased the entry that handler s found while s still
\* holds the iterator: s reads a std::string that is being assigned or was
\* freed (no lock orders the two threads).
Raced(s) ==
  \E k \in (look_at[s] + 1)..Len(doc_log) : Mutates(doc_log[k], reqs[s].arg.uri)

\* onHover up to docs_by_uri_.find(uri): the params are read, the entry is
\* looked up; without a uri or an entry the handler returns null.
HandlerLookup(s) ==
  /\ ProcessAlive
  /\ wpc[s] = "start"
  /\ Method(s) # "workspace/symbol"
  /\ CASE ValueThrows(reqs[s].arg) ->
            /\ wpc' = [wpc EXCEPT ![s] = "reply"]
            /\ result' = [result EXCEPT ![s] = "internal"]
            /\ UNCHANGED <<look_at, seen>>
       [] ~ValueThrows(reqs[s].arg) /\ reqs[s].arg.uri \notin DOMAIN docs_by_uri_ ->
            /\ wpc' = [wpc EXCEPT ![s] = "check"]
            /\ look_at' = [look_at EXCEPT ![s] = Len(doc_log)]
            /\ seen' = [seen EXCEPT ![s] = "absent"]
            /\ UNCHANGED result
       [] OTHER ->
            /\ wpc' = [wpc EXCEPT ![s] = "resolve"]
            /\ look_at' = [look_at EXCEPT ![s] = Len(doc_log)]
            /\ UNCHANGED <<result, seen>>
  /\ UNCHANGED <<reqs, nread, last, mainVars, histVars, flightVars, child, collected,
                 send_mu_, out, transportVars, rg, call>>

\* isInLineCommentAt(it->second.text), wordAt(it->second.text), isStopWord(sym):
\* the handler reads the text through the iterator. If the entry was written or
\* erased meanwhile the read is undefined: it yields any text or garbage, or
\* the process dies.
HandlerResolve(s) ==
  /\ ProcessAlive
  /\ wpc[s] = "resolve"
  /\ IF Raced(s)
       THEN \/ /\ \E t \in Texts \cup {"garbage"} : seen' = [seen EXCEPT ![s] = t]
               /\ wpc' = [wpc EXCEPT ![s] = IF ReturnsEarly(seen'[s], reqs[s].arg.ch)
                                             THEN "check" ELSE "grep"]
               /\ UNCHANGED mainPc
            \/ /\ mainPc' = "crashed"
               /\ UNCHANGED <<seen, wpc>>
       ELSE /\ seen' = [seen EXCEPT ![s] = docs_by_uri_[reqs[s].arg.uri]]
            /\ wpc' = [wpc EXCEPT ![s] = IF ReturnsEarly(seen'[s], reqs[s].arg.ch)
                                             THEN "check" ELSE "grep"]
            /\ UNCHANGED mainPc
  /\ UNCHANGED <<reqs, nread, last, mainMsg, shutdown_received_, exit_requested_,
                 clangd_file_status_, docs_by_uri_, histVars, look_at, flightVars,
                 result, child, collected, send_mu_, out, transportVars, rg, call>>

DocNext ==
  \/ \E msg \in DocRequests \cup DocNotifications : handleMessage(msg)
  \/ ReadEof
  \/ LoopExit
  \/ \E s \in Slots :
       \/ HandlerLookup(s)
       \/ HandlerResolve(s)
       \/ RunGrepSpawn(s)
       \/ PublishPid(s)
       \/ FdopenFails(s)
       \/ ReadLine(s)
       \/ PipeEof(s)
       \/ ChildExit(s)
       \/ WorkerCheck(s)
       \/ DumpThrows(s)
       \/ WorkerReplyBegin(s)
       \/ WorkerReplyEnd(s)
       \/ WorkerErase(s)

DocSpec == Init /\ [][DocNext]_vars

\* ------------------------------------------------------- the file status
\* StatusSpec follows the clangdFileStatus option: the client sends initialize
\* requests with and without the option and the document notifications; the
\* main thread handles each and writes what it has to before it reads on.
InitializeOptions == {"none", "clangdFileStatus", "initializationOptions", "bad"}
StatusRequests ==
  {Request("initialize", HoverId, Params(o, "", "")) : o \in InitializeOptions}

StatusNext ==
  \/ \E msg \in StatusRequests \cup DocNotifications : handleMessage(msg)
  \/ ReadEof
  \/ LoopExit
  \/ MainWriteBegin
  \/ MainWriteEnd

StatusSpec == Init /\ [][StatusNext]_vars

\* ------------------------------------------------------ the framed input
\* FrameSpec follows Server::run byte by byte: the input stream is a sequence of
\* bytes, Transport::readMessage takes one frame off it, Server::handleMessage
\* parses the body. A byte is a one-character string.
MaxFrames == 3

kCL == <<"C", "o", "n", "t", "e", "n", "t", "-", "L", "e", "n", "g", "t", "h", ":">>
CrLf == <<"\r", "\n">>
Digits == <<"0", "1", "2", "3", "4", "5", "6", "7", "8", "9">>

isspace(c) == c \in {" ", "\t", "\n", "\r"}

\* trim in lsp_transport.cpp: erases the leading and the trailing white space.
RECURSIVE trimLeft(_)
trimLeft(s) == IF s # <<>> /\ isspace(Head(s)) THEN trimLeft(Tail(s)) ELSE s
RECURSIVE trimRight(_)
trimRight(s) ==
  IF s # <<>> /\ isspace(s[Len(s)]) THEN trimRight(SubSeq(s, 1, Len(s) - 1)) ELSE s
trim(s) == trimRight(trimLeft(s))

isdigit(c) == \E d \in 1..10 : Digits[d] = c
DigitValue(c) == (CHOOSE d \in 1..10 : Digits[d] = c) - 1

\* The value of the longest prefix of s made of digits, continuing from acc.
RECURSIVE DigitsValue(_, _)
DigitsValue(s, acc) ==
  IF s # <<>> /\ isdigit(Head(s))
    THEN DigitsValue(Tail(s), acc * 10 + DigitValue(Head(s)))
    ELSE acc

\* std::stoul(v): an optional sign, then as many digits as there are; it throws
\* if there is none. What follows the digits is ignored. A minus sign negates
\* the value in unsigned arithmetic: "-n" is 2^64 - n, written here as -n.
stoul(v) ==
  LET w == trimLeft(v)
      signed == w # <<>> /\ Head(w) \in {"+", "-"}
      digits == IF signed THEN Tail(w) ELSE w
  IN IF digits = <<>> \/ ~isdigit(Head(digits))
       THEN [throws |-> TRUE, val |-> 0]
       ELSE [throws |-> FALSE,
             val |-> IF signed /\ Head(w) = "-" THEN 0 - DigitsValue(digits, 0)
                     ELSE DigitsValue(digits, 0)]

\* The position of the first "\n" in s, or 0.
FirstNewline(s) ==
  IF \E i \in 1..Len(s) : s[i] = "\n"
    THEN CHOOSE i \in 1..Len(s) : s[i] = "\n" /\ \A j \in 1..(i - 1) : s[j] # "\n"
    ELSE 0

\* std::getline(in_, line): the bytes up to the next "\n", which is consumed; at
\* the end of input it returns what is left and sets eofbit, and fails if
\* nothing is left.
LineUpTo(s, i) ==
  IF s = <<>> THEN [ok |-> FALSE, line |-> <<>>, rest |-> <<>>, eof |-> TRUE]
  ELSE IF i = 0 THEN [ok |-> TRUE, line |-> s, rest |-> <<>>, eof |-> TRUE]
  ELSE [ok |-> TRUE, line |-> SubSeq(s, 1, i - 1), rest |-> SubSeq(s, i + 1, Len(s)),
        eof |-> FALSE]
getline(s) == LineUpTo(s, FirstNewline(s))

\* line.rfind(kCL, 0) == 0
StartsWith(line, prefix) ==
  Len(line) >= Len(prefix) /\ SubSeq(line, 1, Len(prefix)) = prefix

\* The header loop of Transport::readMessage, from the stream s on, and what
\* it leaves: whether it ended at an empty line, the stream after it, eofbit,
\* content_length, saw_header and the lines it logged.
RECURSIVE ReadHeaders(_, _, _, _)
Headers(ended, rest, eof, content_length, saw_header, logged) ==
  [ended |-> ended, rest |-> rest, eof |-> eof, content_length |-> content_length,
   saw_header |-> saw_header, logged |-> logged]

\* content_length = stoul(v), or 0 and a log line if stoul throws.
ContentLengthLine(g, n, logged) ==
  IF n.throws
    THEN ReadHeaders(g.rest, 0, TRUE, Append(logged, "Invalid Content-Length value"))
    ELSE ReadHeaders(g.rest, n.val, TRUE, logged)

\* One line of the headers, its trailing "\r" popped.
HeaderLine(g, line, content_length, saw_header, logged) ==
  IF line = <<>>
    THEN Headers(TRUE, g.rest, g.eof, content_length, saw_header, logged)
  ELSE IF StartsWith(line, kCL)
    THEN ContentLengthLine(g, stoul(trim(SubSeq(line, Len(kCL) + 1, Len(line)))), logged)
  ELSE ReadHeaders(g.rest, content_length, TRUE, logged)

PopCr(line) ==
  IF line # <<>> /\ line[Len(line)] = "\r" THEN SubSeq(line, 1, Len(line) - 1) ELSE line

GotLine(g, content_length, saw_header, logged) ==
  IF ~g.ok
    THEN Headers(FALSE, g.rest, TRUE, content_length, saw_header, logged)
    ELSE HeaderLine(g, PopCr(g.line), content_length, saw_header, logged)

ReadHeaders(s, content_length, saw_header, logged) ==
  GotLine(getline(s), content_length, saw_header, logged)

\* What Transport::readMessage returns.
Returned(kind, body, rest, logged) ==
  [kind |-> kind, body |-> body, rest |-> rest, logged |-> logged]

\* Transport::readMessage after the header loop: it returns a body ("message"),
\* returns std::nullopt ("nullopt"), or std::string body(n, 0) throws
\* std::length_error because n exceeds max_size() ("throws").
ReadBodyIgnoresLength(h) ==
  IF ~h.ended \/ (~h.saw_header /\ h.eof)
    THEN Returned("nullopt", <<>>, h.rest, h.logged)
    ELSE Returned("message", <<>>, h.rest, h.logged)
ReadBody(h) ==
  IF ~h.ended \/ (~h.saw_header /\ h.eof)
    THEN Returned("nullopt", <<>>, h.rest, h.logged)
  ELSE IF h.content_length = 0
    THEN Returned("message", <<>>, h.rest, h.logged)
  ELSE IF h.content_length < 0
    THEN Returned("throws", <<>>, h.rest, h.logged)
  ELSE IF Len(h.rest) < h.content_length
    THEN Returned("nullopt", <<>>, <<>>, Append(h.logged, "Short read"))
  ELSE Returned("message", SubSeq(h.rest, 1, h.content_length),
                SubSeq(h.rest, h.content_length + 1, Len(h.rest)), h.logged)

readMessage(s) == ReadBody(ReadHeaders(s, 0, FALSE, <<>>))

\* operator<<(std::size_t): the decimal digits of n.
RECURSIVE Decimal(_)
Decimal(n) ==
  IF n < 10 THEN <<Digits[n + 1]>> ELSE Decimal(n \div 10) \o <<Digits[(n % 10) + 1]>>

\* Transport::writeMessage: the bytes it puts on the stream for the body json.
writeMessageNoSeparator(json) == kCL \o <<" ">> \o Decimal(Len(json)) \o CrLf \o json
writeMessage(json) == kCL \o <<" ">> \o Decimal(Len(json)) \o CrLf \o CrLf \o json

\* The bodies a client sends.
ExitBody == <<"{", "\"", "m", "e", "t", "h", "o", "d", "\"", ":", "\"", "e", "x", "i", "t", "\"", "}">>
ShutdownBody == <<"{", "\"", "i", "d", "\"", ":", "1", ",", "\"", "m", "e", "t", "h", "o", "d", "\"", ":", "\"", "s", "h", "u", "t", "d", "o", "w", "n", "\"", "}">>
EmptyObject == <<"{", "}">>
JsonArray == <<"[", "]">>
NotJson == <<"x">>
BlankLines == CrLf \o CrLf
HeaderLike == kCL \o <<" ", "9", "\n">>
Bodies == {<<>>, ExitBody, ShutdownBody, EmptyObject, JsonArray, NotJson, BlankLines, HeaderLike}

\* json::parse(body, nullptr, false) on these bodies: which of them are JSON
\* texts, which of those are objects, which of those have a string "method".
is_discarded(body) == body \notin {ExitBody, ShutdownBody, EmptyObject, JsonArray}
is_object(body) == body \in {ExitBody, ShutdownBody, EmptyObject}
HasMethod(body) == body \in {ExitBody, ShutdownBody}

\* The method, id and params handleMessage takes from a body that has a method.
Parsed(body) ==
  IF body = ExitBody THEN Notification("exit", NoId, NoParams)
  ELSE Request("shutdown", [t |-> "number", text |-> "1"], NoParams)

\* A frame on the input: what kind it is, the body it carries, its bytes.
\*   "written"    the output of writeMessage
\*   "lf"         a written frame with bare "\n" line ends
\*   "other"      a header that is not Content-Length, no body
\*   "bare"       no header at all, only the empty line
\*   "words"      a Content-Length without a digit
\*   "negative"   a Content-Length of -1
\*   "suffix"     a Content-Length of digits followed by letters, and its body
\*   "short"      a Content-Length of 5 and a body of 2 bytes
\*   "cut"        a header cut off before its line end
Frame(kind, body, bytes) == [kind |-> kind, body |-> body, bytes |-> bytes]
Written(body) == Frame("written", body, writeMessage(body))
Frames ==
  {Written(b) : b \in Bodies}
  \cup {Frame("lf", ExitBody, kCL \o <<"1", "7", "\n", "\n">> \o ExitBody),
        Frame("other", <<>>, <<"X", ":", " ", "1">> \o CrLf \o CrLf),
        Frame("bare", <<>>, CrLf),
        Frame("words", <<>>, kCL \o <<" ", "a", "b">> \o CrLf \o CrLf),
        Frame("negative", <<>>, kCL \o <<" ", "-", "1">> \o CrLf \o CrLf),
        Frame("suffix", EmptyObject, kCL \o <<" ", "2", "x">> \o CrLf \o CrLf \o EmptyObject),
        Frame("short", <<"{", "}">>, kCL \o <<" ", "5">> \o CrLf \o CrLf \o <<"{", "}">>),
        Frame("cut", <<>>, <<"C", "o", "n">>)}

\* The bytes of the frames fs, one after the other.
RECURSIVE Stream(_)
Stream(fs) == IF fs = <<>> THEN <<>> ELSE Head(fs).bytes \o Stream(Tail(fs))

\* The client has written up to MaxFrames frames, of which at most MaxReqs
\* carry a request.
FrameInit ==
  /\ ServerInit
  /\ \E n \in 0..MaxFrames : \E fs \in [1..n -> Frames] :
       /\ Cardinality({k \in 1..n : fs[k].body = ShutdownBody}) <= MaxReqs
       /\ sent = fs
       /\ in_ = Stream(fs)
  /\ rg = NotCalled
  /\ call = NotCalled

\* The loop of Server::run is at transport_.readMessage().
AtRead == mainPc = "read" /\ LoopContinues

\* if (!msg.has_value()) break; and run returns.
RunBreak ==
  /\ AtRead
  /\ \E r \in {readMessage(in_)} :
       /\ r.kind = "nullopt"
       /\ in_' = r.rest
       /\ log_' = log_ \o r.logged
  /\ mainPc' = "exited"
  /\ exit_status' = RunReturn
  /\ UNCHANGED <<reqs, nread, last, mainMsg, shutdown_received_, exit_requested_,
                 clangd_file_status_, docs_by_uri_, doc_log, log_at, docVars, sent, got, rg, call,
                 flightVars, workerVars, send_mu_, out>>

\* The std::length_error leaves readMessage, run and main: std::terminate.
RunThrows ==
  /\ AtRead
  /\ \E r \in {readMessage(in_)} :
       /\ r.kind = "throws"
       /\ in_' = r.rest
       /\ log_' = log_ \o r.logged
  /\ mainPc' = "crashed"
  /\ UNCHANGED <<reqs, nread, last, mainMsg, shutdown_received_, exit_requested_,
                 clangd_file_status_, docs_by_uri_, histVars, docVars, sent, got, rg, call,
                 flightVars, workerVars, send_mu_, out>>

\* if (msg->empty()) continue;
RunContinue ==
  /\ AtRead
  /\ \E r \in {readMessage(in_)} :
       /\ r.kind = "message"
       /\ r.body = <<>>
       /\ in_' = r.rest
       /\ log_' = log_ \o r.logged
       /\ got' = Append(got, r.body)
  /\ UNCHANGED <<reqs, nread, last, mainVars, histVars, docVars, sent, rg, call,
                 flightVars, workerVars, send_mu_, out>>

\* What Server::handleMessage logs before it returns without a dispatch: the
\* parse failure; a JSON object without a method is dropped silently.
ParseLogNothing(body) == <<>>
ParseLog(body) ==
  IF is_discarded(body) \/ ~is_object(body) THEN <<"Failed to parse JSON">> ELSE <<>>

\* Server::handleMessage returns at the parse check or at the method check.
RunSkip ==
  /\ AtRead
  /\ \E r \in {readMessage(in_)} :
       /\ r.kind = "message"
       /\ r.body # <<>>
       /\ ~HasMethod(r.body)
       /\ in_' = r.rest
       /\ log_' = log_ \o r.logged \o ParseLog(r.body)
       /\ got' = Append(got, r.body)
  /\ UNCHANGED <<reqs, nread, last, mainVars, histVars, docVars, sent, rg, call,
                 flightVars, workerVars, send_mu_, out>>

\* Server::handleMessage dispatches the request or notification.
RunDispatch ==
  /\ AtRead
  /\ \E r \in {readMessage(in_)} :
       /\ r.kind = "message"
       /\ HasMethod(r.body)
       /\ in_' = r.rest
       /\ log_' = log_ \o r.logged
       /\ got' = Append(got, r.body)
       /\ handleParsed(Parsed(r.body))
  /\ UNCHANGED sent

FrameNext ==
  \/ RunBreak
  \/ RunThrows
  \/ RunContinue
  \/ RunSkip
  \/ RunDispatch
  \/ LoopExit
  \/ MainWriteBegin
  \/ MainWriteEnd

FrameSpec == FrameInit /\ [][FrameNext]_vars

\* ------------------------------------------------------- the search itself
\* GrepSpec follows one call of runGrep statement by statement, for any needle
\* and any max_results: rg holds the arguments, the locals and the child.
\*   pc          the statement the caller is at
\*   pipefd      the pipe: "none", "open", "closed"
\*   child       the forked grep: "none", "running", "exited", "killed", "reaped"
\*   piped       the lines the child has written and the caller has not read
\*   written     how many lines the child has written
\*   read        how many lines the caller has read
\*   signalled   the caller has sent SIGTERM
\*   close0      how often the caller has closed pipefd[0] (close or fclose)
\*   close1      how often the caller has closed pipefd[1]
\*   waits       how often the caller's waitpid has returned
MaxOutput == 3
Needles == {"", "foo"}
MaxResultsArgs == {-1, 0, 1, 2, 3}

\* The lines grep prints: a match that is admitted, or a line that is dropped
\* (no two colons, no line number, a comment line, a match inside quotes).
LineKinds == {"match", "dropped"}

\* if (needle.empty() || max_results <= 0) return out;
ShortCircuitOnNeedleOnly(needle, max_results) == needle = ""
ShortCircuit(needle, max_results) == needle = "" \/ max_results <= 0

\* if (++collected >= max_results), after the increment.
CapReachedLate(count, max_results) == count > max_results
CapReached(count, max_results) == count >= max_results

sessionVars == <<reqs, nread, last, mainVars, histVars, docVars, transportVars,
                 flightVars, workerVars, send_mu_, out, call>>

GrepInit ==
  /\ ServerInit
  /\ in_ = <<>>
  /\ sent = <<>>
  /\ \E needle \in Needles : \E max_results \in MaxResultsArgs :
       rg = [pc |-> "entry", needle |-> needle, max_results |-> max_results,
             out |-> 0, collected |-> 0, pipefd |-> "none", child |-> "none",
             piped |-> <<>>, written |-> 0, read |-> 0, signalled |-> FALSE,
             close0 |-> 0, close1 |-> 0, waits |-> 0]
  /\ call = NotCalled

\* kill(pid, SIGTERM) on the caller's child.
Killed(ch) == IF ch = "running" THEN "killed" ELSE ch

\* The first statement: the short circuit.
RgEnter ==
  /\ rg.pc = "entry"
  /\ rg' = [rg EXCEPT !.pc = IF ShortCircuit(rg.needle, rg.max_results)
                               THEN "returned" ELSE "pipe"]
  /\ UNCHANGED sessionVars

\* pipe(pipefd): on failure runGrep returns the empty result.
RgPipe ==
  /\ rg.pc = "pipe"
  /\ \E ok \in BOOLEAN :
       rg' = IF ok THEN [rg EXCEPT !.pc = "fork", !.pipefd = "open"]
             ELSE [rg EXCEPT !.pc = "returned"]
  /\ UNCHANGED sessionVars

\* if (pid == -1): closeIfValid(pipefd[0]); closeIfValid(pipefd[1]); return out;
ForkFailedLeaks(r) == [r EXCEPT !.pc = "returned"]
ForkFailed(r) ==
  [r EXCEPT !.pc = "returned", !.pipefd = "closed", !.close0 = @ + 1, !.close1 = @ + 1]

\* fork(): on failure the pipe is closed and runGrep returns the empty result;
\* else the child execs grep.
RgFork ==
  /\ rg.pc = "fork"
  /\ \E ok \in BOOLEAN :
       rg' = IF ok THEN [rg EXCEPT !.pc = "fdopen", !.child = "running"]
             ELSE ForkFailed(rg)
  /\ UNCHANGED sessionVars

\* closeIfValid(pipefd[1]); fdopen(pipefd[0]): on failure the caller closes the
\* read end, sends SIGTERM and goes to wait for the child.
RgFdopen ==
  /\ rg.pc = "fdopen"
  /\ \E ok \in BOOLEAN :
       rg' = IF ok THEN [rg EXCEPT !.pc = "getline", !.close1 = @ + 1]
             ELSE [rg EXCEPT !.pc = "waitpid", !.pipefd = "closed",
                             !.close1 = @ + 1, !.close0 = @ + 1,
                             !.child = Killed(rg.child), !.signalled = TRUE]
  /\ UNCHANGED sessionVars

\* getline returns a line: it is dropped (continue), or pushed to out and
\* counted; at the cap the caller goes to kill the child.
RgGetline ==
  /\ rg.pc = "getline"
  /\ rg.piped # <<>>
  /\ rg' = IF Head(rg.piped) = "dropped"
             THEN [rg EXCEPT !.piped = Tail(rg.piped), !.read = @ + 1]
             ELSE [rg EXCEPT !.piped = Tail(rg.piped), !.read = @ + 1,
                             !.out = @ + 1, !.collected = @ + 1,
                             !.pc = IF CapReached(rg.collected + 1, rg.max_results)
                                      THEN "kill" ELSE "getline"]
  /\ UNCHANGED sessionVars

\* getline returns <= 0: the pipe is empty and its write end closed; break.
RgGetlineEof ==
  /\ rg.pc = "getline"
  /\ rg.piped = <<>>
  /\ rg.child # "running"
  /\ rg' = [rg EXCEPT !.pc = "fclose"]
  /\ UNCHANGED sessionVars

\* (void)kill(pid, SIGTERM); break;
RgKill ==
  /\ rg.pc = "kill"
  /\ rg' = [rg EXCEPT !.pc = "fclose", !.child = Killed(rg.child), !.signalled = TRUE]
  /\ UNCHANGED sessionVars

\* free(lineptr); fclose(f);
RgFclose ==
  /\ rg.pc = "fclose"
  /\ rg' = [rg EXCEPT !.pc = "waitpid", !.pipefd = "closed", !.close0 = @ + 1]
  /\ UNCHANGED sessionVars

\* waitpid(pid, &status, 0) blocks until the child has ended, reaps it, and
\* runGrep returns out.
RgWaitpid ==
  /\ rg.pc = "waitpid"
  /\ rg.child \in {"exited", "killed"}
  /\ rg' = [rg EXCEPT !.pc = "returned", !.child = "reaped", !.waits = @ + 1]
  /\ UNCHANGED sessionVars

\* grep prints a line into the pipe.
GrepPrints ==
  /\ rg.pc # "none"
  /\ rg.child = "running"
  /\ rg.pipefd = "open"
  /\ rg.written < MaxOutput
  /\ \E line \in LineKinds :
       rg' = [rg EXCEPT !.piped = Append(@, line), !.written = @ + 1]
  /\ UNCHANGED sessionVars

\* grep ends on its own (or exec failed and the child called _exit).
GrepEnds ==
  /\ rg.pc # "none"
  /\ rg.child = "running"
  /\ rg' = [rg EXCEPT !.child = "exited"]
  /\ UNCHANGED sessionVars

GrepNext ==
  \/ RgEnter
  \/ RgPipe
  \/ RgFork
  \/ RgFdopen
  \/ RgGetline
  \/ RgGetlineEof
  \/ RgKill
  \/ RgFclose
  \/ RgWaitpid
  \/ GrepPrints
  \/ GrepEnds

GrepSpec == GrepInit /\ [][GrepNext]_vars

\* ------------------------------------------------------ the cursor's word
\* CursorSpec follows the four handlers from their params to the search or to
\* their early return: documents with an empty text, a keyword, a word and
\* line comments; requests with the cursor at the start and at the end of the
\* line, without a uri, and for a document that is not open; workspace/symbol
\* with and without a query.
CursorColumns == {0, 5}
CursorMethods == {"textDocument/hover", "textDocument/definition", "textDocument/references"}

CursorRequests ==
  {Request(m, HoverId, At(Params("doc", "file:///a.c", ""), c)) :
     m \in CursorMethods, c \in CursorColumns}
  \cup {Request(m, HoverId, NoParams) : m \in CursorMethods}
  \cup {Request("workspace/symbol", HoverId, Params("query", "", q)) : q \in Needles}
  \cup {Request("workspace/symbol", HoverId, BadParams)}
CursorNotifications ==
  {Notification("textDocument/didOpen", NoId, Params("doc", "file:///a.c", t)) : t \in CursorTexts}
  \cup {Notification("exit", NoId, NoParams)}

\* getStringOr(params, "query"): the empty string unless params holds one.
Query(arg) == IF arg.opt = "query" THEN arg.text ELSE ""

\* onWorkspaceSymbol up to the search: grepFixedString builds the arguments and
\* calls runGrep, which returns at once for an empty needle.
SymbolStart(s) ==
  /\ ProcessAlive
  /\ wpc[s] = "start"
  /\ Method(s) = "workspace/symbol"
  /\ wpc' = [wpc EXCEPT ![s] = IF ShortCircuit(Query(reqs[s].arg), MaxResults(Method(s)))
                                  THEN "check" ELSE "grep"]
  /\ UNCHANGED <<reqs, nread, last, mainVars, histVars, docVars, transportVars, rg, call,
                 flightVars, result, child, collected, send_mu_, out>>

CursorNext ==
  \/ \E msg \in CursorRequests \cup CursorNotifications : handleMessage(msg)
  \/ ReadEof
  \/ LoopExit
  \/ \E s \in Slots :
       \/ HandlerLookup(s)
       \/ HandlerResolve(s)
       \/ SymbolStart(s)
       \/ RunGrepSpawn(s)
       \/ PublishPid(s)
       \/ FdopenFails(s)
       \/ ReadLine(s)
       \/ PipeEof(s)
       \/ ChildExit(s)
       \/ WorkerCheck(s)
       \/ DumpThrows(s)
       \/ WorkerReplyBegin(s)
       \/ WorkerReplyEnd(s)
       \/ WorkerErase(s)

CursorSpec == Init /\ [][CursorNext]_vars

\* ------------------------------------------------- a line of grep's output
\* LineSpec follows one iteration of runGrep's read loop on a line that getline
\* returned: any string of up to MaxLineLen characters, with or without its
\* newline, searched for the needle "f".
LineAlphabet == {":", "0", "1", "-", "f", "/", "\""}
LineNeedle == <<"f">>
OutputLines ==
  LET bare == UNION {[1..k -> LineAlphabet] : k \in 0..MaxLineLen}
  IN bare \cup {Append(l, "\n") : l \in bare}

\* Everything but the call that LineSpec and its like follow.
serverVars == <<reqs, nread, last, mainVars, histVars, docVars, transportVars,
                flightVars, workerVars, send_mu_, out, rg>>

\* s.find(c, from) for a character c: positions are counted from 0.
find(s, c, from) ==
  IF \E i \in from..(Len(s) - 1) : at(s, i) = c
    THEN CHOOSE i \in from..(Len(s) - 1) :
           at(s, i) = c /\ \A j \in from..(i - 1) : at(s, j) # c
    ELSE Npos

\* s.substr(pos, count): at most count characters, up to the end of s.
substr(s, pos, count) == SubSeq(s, pos + 1, Min(pos + count, Len(s)))

\* splitFirstTwoColons from the positions of the two colons on.
SplitAt(s, p1, p2) ==
  IF p1 = Npos \/ p2 = Npos
    THEN [ok |-> FALSE, a |-> <<>>, b |-> <<>>, rest |-> <<>>]
    ELSE [ok |-> TRUE, a |-> substr(s, 0, p1), b |-> substr(s, p1 + 1, p2 - (p1 + 1)),
          rest |-> substr(s, p2 + 1, Len(s))]
splitFirstTwoColons(s) ==
  SplitAt(s, find(s, ":", 0),
          IF find(s, ":", 0) = Npos THEN Npos ELSE find(s, ":", find(s, ":", 0) + 1))

\* std::stoi: white space, an optional sign, then as many digits as there are;
\* it throws if there is none. What follows the digits is ignored.
stoi(v) == stoul(v)

\* haystack.find(needle, from)
FindSeq(h, needle, from) ==
  IF \E i \in from..(Len(h) - Len(needle)) : substr(h, i, Len(needle)) = needle
    THEN CHOOSE i \in from..(Len(h) - Len(needle)) :
           /\ substr(h, i, Len(needle)) = needle
           /\ \A j \in from..(i - 1) : substr(h, j, Len(needle)) # needle
    ELSE Npos

\* in_string after the loop over the positions before pos.
InString(h, pos) ==
  Cardinality({j \in 0..(pos - 1) : at(h, j) = "\"" /\ ~is_escaped_quote(h, j)}) % 2 = 1

\* The loop of findColumn0: the first occurrence of needle outside quotes.
RECURSIVE FindOutsideQuotes(_, _, _)
FindOutsideQuotes(h, needle, pos) ==
  IF pos = Npos THEN 0 - 1
  ELSE IF ~InString(h, pos) THEN pos
  ELSE FindOutsideQuotes(h, needle, FindSeq(h, needle, pos + 1))

\* findColumn0: -1 for a line whose first characters after white space are
\* "//" and for a needle that occurs inside quotes only.
findColumn0(haystack, needle) ==
  IF needle = <<>> THEN 0
  ELSE IF Len(trimLeft(haystack)) >= 2 /\ SubSeq(trimLeft(haystack), 1, 2) = <<"/", "/">>
    THEN 0 - 1
  ELSE FindOutsideQuotes(haystack, needle, FindSeq(haystack, needle, 0))

\* while (!line.empty() && (line.back() == '\n' || line.back() == '\r')) line.pop_back();
RECURSIVE Chomp(_)
Chomp(l) ==
  IF l # <<>> /\ l[Len(l)] \in {"\n", "\r"} THEN Chomp(SubSeq(l, 1, Len(l) - 1)) ELSE l

\* The fields of the line the loop is looking at.
Fields == splitFirstTwoColons(Chomp(call.line))

LineInit ==
  /\ ServerInit
  /\ in_ = <<>>
  /\ sent = <<>>
  /\ rg = NotCalled
  /\ \E l \in OutputLines :
       call = [pc |-> "getline", line |-> l, needle |-> LineNeedle,
               path |-> <<>>, lineno |-> 0, text |-> <<>>, column |-> 0]

\* if (!splitFirstTwoColons(line, path, lno, text)) continue;
LineSplitFails ==
  /\ call.pc = "getline"
  /\ ~Fields.ok
  /\ call' = [call EXCEPT !.pc = "skipped"]
  /\ UNCHANGED serverVars

\* line_no = std::stoi(lno) throws: catch (...) continue;
LineStoiThrows ==
  /\ call.pc = "getline"
  /\ Fields.ok
  /\ stoi(Fields.b).throws
  /\ call' = [call EXCEPT !.pc = "skipped"]
  /\ UNCHANGED serverVars

\* m.column = findColumn0(text, needle); if (m.column < 0) continue;
LineFiltered ==
  /\ call.pc = "getline"
  /\ Fields.ok
  /\ ~stoi(Fields.b).throws
  /\ findColumn0(Fields.rest, call.needle) < 0
  /\ call' = [call EXCEPT !.pc = "skipped"]
  /\ UNCHANGED serverVars

\* out.push_back(std::move(m));
LinePushed ==
  /\ call.pc = "getline"
  /\ Fields.ok
  /\ ~stoi(Fields.b).throws
  /\ findColumn0(Fields.rest, call.needle) >= 0
  /\ call' = [call EXCEPT !.pc = "pushed", !.path = Fields.a,
                          !.lineno = stoi(Fields.b).val, !.text = Fields.rest,
                          !.column = findColumn0(Fields.rest, call.needle)]
  /\ UNCHANGED serverVars

LineNext == LineSplitFails \/ LineStoiThrows \/ LineFiltered \/ LinePushed

LineSpec == LineInit /\ [][LineNext]_vars

\* ------------------------------------------------------ the word at a column
\* WordSpec follows one call of wordAt: any text of up to MaxTextLen characters
\* (letters, digits, underscores, punctuation, blanks, newlines), any line from
\* -1 to 2 and any column from -1 to MaxTextLen + 1.
TextAlphabet == {"a", "_", "1", ";", " ", "\n"}
WordTexts == UNION {[1..k -> TextAlphabet] : k \in 0..MaxTextLen}
WordLines == {0 - 1, 0, 1, 2}
WordColumns == (0 - 1)..(MaxTextLen + 1)

WordInit ==
  /\ ServerInit
  /\ in_ = <<>>
  /\ sent = <<>>
  /\ rg = NotCalled
  /\ \E t \in WordTexts : \E l \in WordLines : \E c \in WordColumns :
       call = [pc |-> "wordAt", text |-> t, line0 |-> l, ch0 |-> c, word |-> <<>>]

\* if (line0 < 0 || ch0 < 0) return {};
WordNegative ==
  /\ call.pc = "wordAt"
  /\ call.line0 < 0 \/ call.ch0 < 0
  /\ call' = [call EXCEPT !.pc = "empty"]
  /\ UNCHANGED serverVars

\* The loop ends without reaching line0: return {};
WordNoLine ==
  /\ call.pc = "wordAt"
  /\ call.line0 >= 0 /\ call.ch0 >= 0
  /\ ~LineOf(call.text, call.line0).found
  /\ call' = [call EXCEPT !.pc = "empty"]
  /\ UNCHANGED serverVars

\* The line is found: if (end <= start) return {}; else the substring.
WordOnLine ==
  /\ call.pc = "wordAt"
  /\ call.line0 >= 0 /\ call.ch0 >= 0
  /\ LineOf(call.text, call.line0).found
  /\ call' = [call EXCEPT !.word = wordAtChars(call.text, call.line0, call.ch0),
                          !.pc = IF wordAtChars(call.text, call.line0, call.ch0) = <<>>
                                   THEN "empty" ELSE "word"]
  /\ UNCHANGED serverVars

WordNext == WordNegative \/ WordNoLine \/ WordOnLine

WordSpec == WordInit /\ [][WordNext]_vars

\* ------------------------------------------------------------------ ranking
\* RankSpec follows a handler from the return of the search to its result:
\* any list of up to MaxMatches matches for the needle "f", in the files a.c,
\* ./a.c and b.c under the root /r, on lines 1 and 2, with four line texts.
\* A path is the sequence of its components.
rootDir == <<"/", "r">>
RankNeedle == <<"f">>
MatchPaths == {<<"a.c">>, <<".", "a.c">>, <<"b.c">>}
MatchTexts ==
  {[text |-> <<"f">>, column |-> 0],
   [text |-> <<"f", " ">>, column |-> 0],
   [text |-> <<"f", ";">>, column |-> 0],
   [text |-> <<"i", "n", "t", " ", "f", "(">>, column |-> 4]}
GrepMatches ==
  {[path |-> p, line |-> l, column |-> t.column, text |-> t.text] :
     p \in MatchPaths, l \in 1..2, t \in MatchTexts}
MatchLists == UNION {[1..k -> GrepMatches] : k \in 0..MaxMatches}

\* makeResultPathAbsolute: base / path, lexically normal (the "." components
\* dropped); the empty path stays empty.
lexically_normal(path) == SelectSeq(path, LAMBDA c : c # ".")
makeResultPathAbsolute(p) ==
  IF p = <<>> THEN p
  ELSE IF Head(p) = "/" THEN lexically_normal(p)
  ELSE lexically_normal(rootDir \o p)

\* a.abs_path < b.abs_path on std::string: the component names in byte order.
NameOrder(c) == CASE c = "/" -> 0 [] c = "a.c" -> 1 [] c = "b.c" -> 2 [] OTHER -> 3
RECURSIVE PathLess(_, _)
PathLess(p, q) ==
  IF q = <<>> THEN FALSE
  ELSE IF p = <<>> THEN TRUE
  ELSE IF Head(p) # Head(q) THEN NameOrder(Head(p)) < NameOrder(Head(q))
  ELSE PathLess(Tail(p), Tail(q))

\* The callers of the ranker: workspace/symbol passes no current file; hover,
\* definition and references pass the file and the line of the cursor, and
\* the same file as the preferred path.
RankCallers ==
  {[handler |-> "workspace/symbol", current |-> <<>>, line1 |-> 0]} \cup
  {[handler |-> h, current |-> makeResultPathAbsolute(p), line1 |-> 1] :
     h \in {"textDocument/hover", "textDocument/definition", "textDocument/references"},
     p \in {<<"a.c">>, <<"b.c">>}}

isblank(c) == c \in {" ", "\t"}

\* isWsOrBolBefore
isWsOrBolBefore(line, col0) == col0 <= 0 \/ isblank(at(line, col0 - 1))

\* prevNonSpace: the nearest character before a column that is neither a
\* blank nor a tab, "" for '\0'.
RECURSIVE prevNonSpace(_, _)
prevNonSpace(line, k) ==
  IF k <= 0 THEN ""
  ELSE IF ~isblank(at(line, k - 1)) THEN at(line, k - 1)
  ELSE prevNonSpace(line, k - 1)

\* while (i < line.size() && std::isspace(line[i])) ++i;
RECURSIVE SkipSpace(_, _)
SkipSpace(line, i) == IF i < Len(line) /\ isblank(at(line, i)) THEN SkipSpace(line, i + 1) ELSE i

kDefine == <<"d", "e", "f", "i", "n", "e">>

\* macroNameStartIfDefine from the column after the '#': the column of the
\* macro's name, below 0 for std::nullopt.
AfterHash(line, i) ==
  IF i + Len(kDefine) > Len(line) THEN 0 - 1
  ELSE IF SubSeq(line, i + 1, i + Len(kDefine)) # kDefine THEN 0 - 1
  ELSE IF i + Len(kDefine) < Len(line) /\ ~isblank(at(line, i + Len(kDefine))) THEN 0 - 1
  ELSE IF SkipSpace(line, i + Len(kDefine)) >= Len(line) THEN 0 - 1
  ELSE SkipSpace(line, i + Len(kDefine))

macroNameStartIfDefine(line) ==
  IF SkipSpace(line, 0) >= Len(line) \/ at(line, SkipSpace(line, 0)) # "#" THEN 0 - 1
  ELSE AfterHash(line, SkipSpace(line, SkipSpace(line, 0) + 1))

\* prevIdentifier: walk left over blanks, over * & : < > , ( and over blanks
\* again, then collect the identifier.
RECURSIVE SkipBlankLeft(_, _)
SkipBlankLeft(line, k) ==
  IF k > 0 /\ isblank(at(line, k - 1)) THEN SkipBlankLeft(line, k - 1) ELSE k
RECURSIVE SkipPunctLeft(_, _)
SkipPunctLeft(line, k) ==
  IF k > 0 /\ at(line, k - 1) \in {"*", "&", ":", "<", ">", ",", "("}
    THEN SkipPunctLeft(line, k - 1) ELSE k
prevIdentifier(line, before) ==
  Join(SubSeq(line,
              WordStart(line, SkipBlankLeft(line, SkipPunctLeft(line, SkipBlankLeft(line, before)))) + 1,
              SkipBlankLeft(line, SkipPunctLeft(line, SkipBlankLeft(line, before)))))

kPrim ==
  {"void", "bool", "char", "short", "int", "long", "float", "double", "signed", "unsigned",
   "wchar_t", "char8_t", "char16_t", "char32_t", "size_t", "ssize_t",
   "int8_t", "uint8_t", "int16_t", "uint16_t", "int32_t", "uint32_t", "int64_t", "uint64_t",
   "intptr_t", "uintptr_t", "u8", "u16", "u32", "u64", "s8", "s16", "s32", "s64"}

\* end = col0 + needle.size(), clamped to the line.
TokenEnd(line, col0, needle) == Min(col0 + Len(needle), Len(line))

\* scoreMatchLine
scoreMatchLine(line, col0, needle) ==
  IF col0 < 0 THEN 0 - 100000
  ELSE (IF macroNameStartIfDefine(line) = col0 THEN 100 ELSE 0)
     + (IF isWsOrBolBefore(line, col0) THEN 25 ELSE 0)
     + (IF prevNonSpace(line, col0) = ">" THEN 20 ELSE 0)
     + (IF TokenEnd(line, col0, needle) < Len(line)
             /\ at(line, TokenEnd(line, col0, needle)) = ";" THEN 40 ELSE 0)
     + (IF SkipSpace(line, TokenEnd(line, col0, needle)) < Len(line)
             /\ at(line, SkipSpace(line, TokenEnd(line, col0, needle))) = "("
          THEN 60 + (IF prevIdentifier(line, col0) \in kPrim THEN 30 ELSE 0)
          ELSE 0)

\* r.score += 10 for a match in the preferred file.
PreferBonus(abs_path, prefer_abs_path) ==
  IF prefer_abs_path # <<>> /\ abs_path = prefer_abs_path THEN 10 ELSE 0

\* The MatchRank of the match at position idx of the input.
MatchRank(m, idx, needle, prefer_abs_path) ==
  [m |-> m, idx |-> idx, abs_path |-> makeResultPathAbsolute(m.path),
   score |-> scoreMatchLine(m.text, m.column, needle)
             + PreferBonus(makeResultPathAbsolute(m.path), prefer_abs_path)]

\* continue;  // ignore exact same line; user is already there
SameLine(r, current_abs_path, current_line1) ==
  /\ current_abs_path # <<>> /\ current_line1 > 0
  /\ r.abs_path = current_abs_path /\ r.m.line = current_line1

\* The comparator of the sort.
Before(a, b) ==
  IF a.score # b.score THEN a.score > b.score
  ELSE IF a.abs_path # b.abs_path THEN PathLess(a.abs_path, b.abs_path)
  ELSE IF a.m.line # b.m.line THEN a.m.line < b.m.line
  ELSE a.m.column < b.m.column

\* A stable sort that puts x before the elements equal to it.
RECURSIVE InsertFirst(_, _)
InsertFirst(x, sorted) ==
  IF sorted = <<>> THEN <<x>>
  ELSE IF ~Before(Head(sorted), x) THEN <<x>> \o sorted
  ELSE <<Head(sorted)>> \o InsertFirst(x, Tail(sorted))

\* std::stable_sort, one element at a time: x goes right before the first
\* element it must precede, so after every element equal to it.
RECURSIVE Insert(_, _)
Insert(x, sorted) ==
  IF sorted = <<>> THEN <<x>>
  ELSE IF Before(x, Head(sorted)) THEN <<x>> \o sorted
  ELSE <<Head(sorted)>> \o Insert(x, Tail(sorted))

RECURSIVE SortPrefix(_, _)
SortPrefix(v, n) == IF n = 0 THEN <<>> ELSE Insert(v[n], SortPrefix(v, n - 1))
stable_sort(v) == SortPrefix(v, Len(v))

\* rankAndFilterMatches
rankAndFilterMatches(matches, needle, current_abs_path, current_line1, prefer_abs_path) ==
  stable_sort(SelectSeq([i \in 1..Len(matches) |-> MatchRank(matches[i], i, needle, prefer_abs_path)],
                        LAMBDA r : ~SameLine(r, current_abs_path, current_line1)))

\* A location of a result: the uri of the absolute path and the range.
Location(r, needle) ==
  [uri |-> r.abs_path, line |-> r.m.line - 1, character |-> r.m.column,
   end |-> r.m.column + Len(needle)]
Locations(ranked, needle) == [i \in 1..Len(ranked) |-> Location(ranked[i], needle)]

\* onDefinition's loop: it counts the strong matches up to two and keeps
\* the position of the last one counted.
RECURSIVE CountStrong(_, _, _, _)
CountStrong(ranked, i, strong, strong_idx) ==
  IF i > Len(ranked) THEN [strong |-> strong, strong_idx |-> strong_idx]
  ELSE IF ranked[i].score >= StrongScore
    THEN IF strong + 1 > 1 THEN [strong |-> strong + 1, strong_idx |-> i]
         ELSE CountStrong(ranked, i + 1, strong + 1, i)
  ELSE CountStrong(ranked, i + 1, strong, strong_idx)

\* The first strong match alone, however many there are.
DefinitionLocationsFirstStrong(ranked, needle) ==
  IF CountStrong(ranked, 1, 0, 1).strong >= 1
    THEN <<Location(ranked[CHOOSE i \in 1..Len(ranked) :
                              /\ ranked[i].score >= StrongScore
                              /\ \A j \in 1..(i - 1) : ranked[j].score < StrongScore], needle)>>
    ELSE Locations(ranked, needle)

\* if (strong == 1) the strong match alone, else every ranked match.
DefinitionLocations(ranked, needle) ==
  IF CountStrong(ranked, 1, 0, 1).strong = 1
    THEN <<Location(ranked[CountStrong(ranked, 1, 0, 1).strong_idx], needle)>>
    ELSE Locations(ranked, needle)

nullResult == [kind |-> "null", locs |-> <<>>]

RankInit ==
  /\ ServerInit
  /\ in_ = <<>>
  /\ sent = <<>>
  /\ rg = NotCalled
  /\ \E c \in RankCallers : \E ms \in MatchLists :
       call = [pc |-> "searched", handler |-> c.handler, current |-> c.current,
               line1 |-> c.line1, needle |-> RankNeedle, matches |-> ms,
               ranked |-> <<>>, result |-> nullResult]

\* if (matches.empty()) return nullResult();   (hover and definition)
RankNoMatches ==
  /\ call.pc = "searched"
  /\ call.handler \in {"textDocument/hover", "textDocument/definition"}
  /\ call.matches = <<>>
  /\ call' = [call EXCEPT !.pc = "done", !.result = nullResult]
  /\ UNCHANGED serverVars

\* auto ranked = rankAndFilterMatches(matches, sym, current_abs, current_line1, current_abs, ...)
RankMatches ==
  /\ call.pc = "searched"
  /\ call.handler \in {"textDocument/hover", "textDocument/definition"} => call.matches # <<>>
  /\ call' = [call EXCEPT !.pc = "ranked",
                          !.ranked = rankAndFilterMatches(call.matches, call.needle, call.current,
                                                          call.line1, call.current)]
  /\ UNCHANGED serverVars

\* if (ranked.empty()) return nullResult();   (hover and definition)
RankedEmpty ==
  /\ call.pc = "ranked"
  /\ call.handler \in {"textDocument/hover", "textDocument/definition"}
  /\ call.ranked = <<>>
  /\ call' = [call EXCEPT !.pc = "done", !.result = nullResult]
  /\ UNCHANGED serverVars

\* onHover: the result shows ranked.front().
HoverBest ==
  /\ call.pc = "ranked"
  /\ call.handler = "textDocument/hover"
  /\ call.ranked # <<>>
  /\ call' = [call EXCEPT !.pc = "done",
                          !.result = [kind |-> "hover",
                                      locs |-> <<Location(Head(call.ranked), call.needle)>>]]
  /\ UNCHANGED serverVars

\* onDefinition: the strong match alone or every ranked match.
DefinitionResult ==
  /\ call.pc = "ranked"
  /\ call.handler = "textDocument/definition"
  /\ call.ranked # <<>>
  /\ call' = [call EXCEPT !.pc = "done",
                          !.result = [kind |-> "array",
                                      locs |-> DefinitionLocations(call.ranked, call.needle)]]
  /\ UNCHANGED serverVars

\* onReferences and onWorkspaceSymbol: every ranked match, in order.
ListResult ==
  /\ call.pc = "ranked"
  /\ call.handler \in {"textDocument/references", "workspace/symbol"}
  /\ call' = [call EXCEPT !.pc = "done",
                          !.result = [kind |-> "array",
                                      locs |-> Locations(call.ranked, call.needle)]]
  /\ UNCHANGED serverVars

RankNext ==
  \/ RankNoMatches
  \/ RankMatches
  \/ RankedEmpty
  \/ HoverBest
  \/ DefinitionResult
  \/ ListResult

RankSpec == RankInit /\ [][RankNext]_vars

\* ------------------------------------------------------------- vocabulary
AsyncSlots == {s \in 1..Len(reqs) : reqs[s].method \in AsyncMethods}

\* The complete responses (header and body on the stream) written for request n.
ResponsesFor(n) ==
  {i \in 1..Len(out) : out[i].part = "body" /\ out[i].msg.req = n
                       /\ out[i].msg.kind \in {"result", "error"}}

\* Every chunk written for request n so far is the error `code`.
OnlyError(n, code) ==
  \A i \in 1..Len(out) : out[i].msg.req = n =>
    out[i].msg.kind = "error" /\ out[i].msg.code = code

\* Worker positions from the handler's return to the finished write.
Replied(s) == wpc[s] \in {"erase", "done"}

\* ---------------------------------------------------------------------- C1
\* C1 (as stated): every request the server has read gets exactly one response
\* with its id: never two, and by the time the process ends never zero.
C1_ExactlyOneResponse ==
  /\ \A n \in 1..Len(reqs) : Cardinality(ResponsesFor(n)) <= 1
  /\ mainPc = "exited" => \A n \in 1..Len(reqs) : Cardinality(ResponsesFor(n)) = 1

\* ---------------------------------------------------------------------- C2
\* C2 (as stated): a cancel that first sets the flag after the search has ended
\* (its child reaped) and before the reply is written makes the written reply
\* error -32800.
C2_CancelBeforeReplyWritten ==
  \A s \in AsyncSlots :
    (cancel_at[s].pc \in {"check", "reply"} /\ cancel_at[s].child = "reaped") =>
      OnlyError(s, RequestCancelled)

\* C2 (amended): a cancel that first sets the flag after the search has ended
\* and before the worker's check of the flag makes the worker reply -32800 and
\* never the handler's result.
C2_CancelBeforeCheck ==
  \A s \in AsyncSlots :
    cancel_at[s].pc = "check" =>
      /\ OnlyError(s, RequestCancelled)
      /\ wpc[s] \in {"reply", "writing", "erase", "done"} => result[s] = "cancelled"

\* A search ran and was reaped, the cancel came before the check, and the
\* -32800 reply is on the stream.
C2_Witness ==
  \E s \in AsyncSlots :
    /\ cancel_at[s].pc = "check"
    /\ cancel_at[s].child = "reaped"
    /\ Replied(s)
    /\ \E i \in ResponsesFor(s) : out[i].msg.code = RequestCancelled

\* ---------------------------------------------------------------------- C3
\* A workspace/symbol request whose $/cancelRequest was the very next message.
PromptlyCancelledSymbol(s) ==
  /\ reqs[s].method = "workspace/symbol"
  /\ cancel_at[s].next

Terminated(s) == child[s] \in {"killed", "reaped"}

C6_UnknownCancelIsSilent ==
  [][\A i \in JsonIds \cup {NoId} :
       (/\ handleMessage(Notification("$/cancelRequest", i, NoParams))
        /\ (i = NoId \/ inflightKey(i) \notin DOMAIN inflight_))
       => UNCHANGED <<out, mainMsg, mainPc, send_mu_, child, inflight_, cancelled, grep_pid>>]_vars

\* The last message was a cancel for a request whose worker had finished and
\* erased its entry; the request was not flagged.
C6_Witness ==
  /\ last.method = "$/cancelRequest"
  /\ mainPc = "read"
  /\ \E s \in AsyncSlots :
       /\ reqs[s].id = last.id
       /\ wpc[s] = "done"
       /\ inflightKey(last.id) \notin DOMAIN inflight_
       /\ ~cancelled[s]

\* ---------------------------------------------------------------------- C7
\* The threads inside Transport::writeMessage.
Writers ==
  {t \in {MainThread} \cup Slots :
     IF t = MainThread THEN mainPc = "writing" ELSE wpc[t] = "writing"}

\* C7: at most one thread is inside writeMessage, it holds send_mu_, and the
\* output stream is a sequence of whole frames: each header is followed by the
\* body of the same message before any other header.
C7_WritesSerialized ==
  /\ Cardinality(Writers) <= 1
  /\ Writers = IF send_mu_ = Free THEN {} ELSE {send_mu_}
  /\ \A i \in 1..Len(out) :
       /\ out[i].part = IF i % 2 = 1 THEN "header" ELSE "body"
       /\ i % 2 = 0 => out[i].msg = out[i - 1].msg

\* A worker is inside writeMessage while the main thread waits with a
\* server-initiated notification and a frame is already out.
C7_Witness ==
  /\ mainPc = "send"
  /\ mainMsg.kind = "notification"
  /\ \E s \in AsyncSlots : wpc[s] = "writing"
  /\ Len(out) >= 3

\* ---------------------------------------------------------------------- C8
\* The worker of request s exists and has not yet emitted its whole response.
NotYetEmitted(s) ==
  wpc[s] \in {"start", "resolve", "grep", "forked", "reading", "check", "reply", "writing"}

\* C8 (as stated): the map has an entry for id x iff a worker for x has not yet
\* emitted its response.
C8_EntryIffNotEmitted ==
  \A id \in JsonIds :
    inflightKey(id) \in DOMAIN inflight_
      <=> \E s \in AsyncSlots : reqs[s].id = id /\ NotYetEmitted(s)

\* C8 (amended): the map has an entry for id x only if a worker for x has not yet
\* finished (the entry outlives the response until the worker's erase), and a
\* worker that has not yet emitted its response has an entry under its id
\* unless another request with the same id has finished and erased it.
C8_EntryOnlyWhileWorkerLives ==
  /\ \A id \in JsonIds :
       inflightKey(id) \in DOMAIN inflight_
         => \E s \in AsyncSlots : reqs[s].id = id /\ wpc[s] # "done"
  /\ \A s \in AsyncSlots :
       NotYetEmitted(s) =>
         \/ inflightKey(reqs[s].id) \in DOMAIN inflight_
         \/ \E r \in AsyncSlots : r # s /\ reqs[r].id = reqs[s].id /\ wpc[r] = "done"

\* The response of s is out and its entry is still in the map.
C8_Witness ==
  \E s \in AsyncSlots :
    /\ wpc[s] = "erase"
    /\ Cardinality(ResponsesFor(s)) = 1
    /\ inflightKey(reqs[s].id) \in DOMAIN inflight_
    /\ inflight_[inflightKey(reqs[s].id)] = s

\* ---------------------------------------------------------------------- C9
\* C9 (as stated): no response of an asynchronous request is written after the
\* entry of its id has been removed from the map: while a worker writes, the
\* entry is there.
C9_NoResponseAfterRemoval ==
  \A s \in AsyncSlots :
    wpc[s] = "writing" => inflightKey(reqs[s].id) \in DOMAIN inflight_

\* --------------------------------------------------------------------- C10
\* C10: a worker erases its id's entry after it has replied exactly once,
\* whatever it replied, and once every worker has finished the map is empty.
C10_EntriesErasedAfterReply ==
  /\ \A s \in AsyncSlots :
       /\ Replied(s) => Cardinality(ResponsesFor(s)) = 1
       /\ (wpc[s] = "done" /\ inflightKey(reqs[s].id) \in DOMAIN inflight_) =>
            \E r \in AsyncSlots : reqs[r].id = reqs[s].id /\ wpc[r] # "done"
  /\ (\A s \in AsyncSlots : wpc[s] = "done") => DOMAIN inflight_ = {}

\* Two workers have finished, one after a handler exception and one after a
\* cancel, and the map is empty.
C10_Witness ==
  /\ \A s \in AsyncSlots : wpc[s] = "done"
  /\ \E s, r \in AsyncSlots : result[s] = "internal" /\ result[r] = "cancelled"
  /\ \E s \in AsyncSlots : \E i \in ResponsesFor(s) : out[i].msg.code = InternalError
  /\ DOMAIN inflight_ = {}

\* --------------------------------------------------------------------- C11
\* The session was initialize, shutdown, exit and the process has ended.
InitializeShutdownExit ==
  /\ mainPc = "exited"
  /\ nread = 3
  /\ Len(reqs) = 2
  /\ reqs[1].method = "initialize"
  /\ reqs[2].method = "shutdown"
  /\ ~last.isReq /\ last.method = "exit"

\* C11: once Server::run has returned, its value is 0 if a shutdown request was
\* dispatched before the loop ended and 1 otherwise; before that it has no
\* value. The session initialize, shutdown, exit ends with two result responses
\* on the stream and exit status 0.
C11_ExitStatus ==
  /\ mainPc = "exited" =>
       /\ exit_status \in {0, 1}
       /\ exit_status = 0 <=> \E n \in 1..Len(reqs) : reqs[n].method = "shutdown"
  /\ mainPc # "exited" => exit_status = NotReturned
  /\ InitializeShutdownExit =>
       /\ exit_status = 0
       /\ Len(out) = 4
       /\ \A n \in {1, 2} : \E i \in ResponsesFor(n) : out[i].msg.kind = "result"

C11_Witness == InitializeShutdownExit /\ exit_status = 0 /\ Len(out) = 4

\* --------------------------------------------------------------------- C12
\* The main thread has finished request n: its reply is not pending any more.
Dispatched(n) == n \in 1..Len(reqs) /\ mainMsg.req # n

\* Request n was read after a shutdown request.
AfterShutdown(n) == \E k \in 1..(n - 1) : reqs[k].method = "shutdown"

\* C12: after shutdown has been received the loop still reads and dispatches
\* every message, a synchronous request read after it gets its one usual
\* response, a worker started before or after it is not held back at its flag
\* test or its reply, and a worker that is past its reply has written its one
\* response.
C12_ShutdownDoesNotMute ==
  shutdown_received_ =>
    /\ (mainPc = "read" /\ ~exit_requested_ /\ nread < MaxMsgs) =>
         /\ \A msg \in Notifications : ENABLED handleMessage(msg)
         /\ Len(reqs) < MaxReqs => \A msg \in Requests : ENABLED handleMessage(msg)
    /\ \A n \in 1..Len(reqs) :
         (AfterShutdown(n) /\ reqs[n].method \notin AsyncMethods) =>
           /\ \A i \in 1..Len(out) : out[i].msg.req = n => out[i].msg = SyncResponse(n, reqs[n])
           /\ Dispatched(n) => Cardinality(ResponsesFor(n)) = 1
    /\ \A s \in AsyncSlots :
         /\ wpc[s] # "none"
         /\ Replied(s) => Cardinality(ResponsesFor(s)) = 1
         /\ mainPc \notin {"exited", "crashed"} =>
              /\ wpc[s] = "check" => ENABLED WorkerCheck(s)
              /\ (wpc[s] = "reply" /\ send_mu_ = Free) => ENABLED WorkerReplyBegin(s)
              /\ wpc[s] = "writing" => ENABLED WorkerReplyEnd(s)

\* A request was in flight when shutdown arrived: its response was written
\* after the response to shutdown, and a didOpen that followed took effect.
C12_Witness ==
  /\ Len(reqs) = 2
  /\ reqs[1].method \in AsyncMethods
  /\ reqs[2].method = "shutdown"
  /\ \E i \in ResponsesFor(1) : \E j \in ResponsesFor(2) : j < i
  /\ last.method = "textDocument/didOpen"
  /\ DOMAIN docs_by_uri_ # {}

\* --------------------------------------------------------------------- C13
\* C13: once an exit notification has been dispatched it stays the last message
\* dispatched: no step after it reads a message, changes what the main thread
\* keeps (flags, documents, pending reply), adds a request, an in-flight entry or
\* a worker, or sets a cancelled flag; the main thread only leaves the loop.
C13_NothingAfterExit ==
  /\ [](exit_requested_ =>
          /\ ~last.isReq /\ last.method = "exit"
          /\ mainPc \in {"read", "exited"}
          /\ mainMsg = NoMsg)
  /\ [][exit_requested_ =>
          /\ UNCHANGED <<nread, reqs, last, mainMsg, shutdown_received_, exit_requested_,
                         clangd_file_status_, docs_by_uri_, doc_log, log_at, cancelled>>
          /\ DOMAIN inflight_' \subseteq DOMAIN inflight_
          /\ \A s \in Slots : wpc[s] = "none" => wpc'[s] = "none"]_vars

\* The exit came while the client could still have sent more: the process has
\* ended after two messages, the request before the exit unanswered or not.
C13_Witness ==
  /\ exit_requested_
  /\ mainPc = "exited"
  /\ nread = 2
  /\ Len(reqs) = 1

\* --------------------------------------------------------------------- C14
\* The method is none of the eight the server implements.
UnknownMethod(method) == method \notin SyncMethods \cup AsyncMethods

\* C14: the dispatch of a request with an unknown method hands error -32601
\* "Method not found: <method>" to the reply and touches no in-flight entry, no
\* worker, no child and no session flag; that error is the request's only
\* response and the request never has a worker.
C14_UnknownMethod ==
  /\ [][\A msg \in Requests :
          (UnknownMethod(msg.method) /\ handleMessage(msg)) =>
            /\ mainPc' = "send"
            /\ mainMsg' = ErrorMsg(Len(reqs) + 1, msg.id, MethodNotFound,
                                   "Method not found: " \o msg.method)
            /\ UNCHANGED <<inflight_, wpc, cancelled, grep_pid, child,
                           shutdown_received_, exit_requested_>>]_vars
  /\ [](\A n \in 1..Len(reqs) :
          UnknownMethod(reqs[n].method) =>
            /\ wpc[n] = "none"
            /\ \A i \in 1..Len(out) : out[i].msg.req = n =>
                 /\ out[i].msg.kind = "error"
                 /\ out[i].msg.code = MethodNotFound
                 /\ out[i].msg.val = "Method not found: " \o reqs[n].method
                 /\ out[i].msg.id = reqs[n].id
            /\ Dispatched(n) => Cardinality(ResponsesFor(n)) = 1)

\* An `exit` sent as a request was answered -32601 and did not end the session,
\* while another request's entry sat in the map untouched.
C14_Witness ==
  \E n \in 1..Len(reqs) :
    /\ reqs[n].method = "exit"
    /\ \E i \in ResponsesFor(n) : out[i].msg.code = MethodNotFound
    /\ ~exit_requested_
    /\ DOMAIN inflight_ # {}
    /\ inflightKey(reqs[n].id) \notin DOMAIN inflight_

\* --------------------------------------------------------------------- C15
\* C15 (as stated): no dispatch ends the main loop abnormally, and a worker
\* whose handler threw has written exactly one response, the error -32603
\* prefixed "Internal error: ".
C15_NoExceptionEscapes ==
  /\ mainPc # "crashed"
  /\ \A s \in AsyncSlots :
       (result[s] = "internal" /\ Replied(s)) =>
         /\ Cardinality(ResponsesFor(s)) = 1
         /\ \A i \in ResponsesFor(s) :
              out[i].msg.code = InternalError /\ out[i].msg.val = "Internal error: "

\* --------------------------------------------------------------------- C16
\* The requests answered on the main thread.
SyncSlots == {n \in 1..Len(reqs) : reqs[n].method \notin AsyncMethods}

\* C16: a message is read only when the main thread has nothing pending; at
\* that point every synchronous request read so far has its complete response
\* on the stream; a pending reply belongs to the message read last; and the
\* responses of synchronous requests are on the stream in request order.
C16_SerialMainThread ==
  /\ [][nread' # nread => (mainPc = "read" /\ mainMsg = NoMsg /\ nread' = nread + 1)]_vars
  /\ [](/\ mainPc \in {"read", "exited", "crashed"} =>
             /\ mainMsg = NoMsg
             /\ \A n \in SyncSlots : Cardinality(ResponsesFor(n)) = 1
        /\ mainPc \in {"send", "writing"} =>
             /\ mainMsg.kind \in {"result", "error"} =>
                  mainMsg.req = Len(reqs) /\ last = reqs[Len(reqs)]
             /\ mainMsg.kind = "notification" => last.method \in DocNotificationMethods
        /\ \A n, m \in SyncSlots :
             n < m => \A i, j \in 1..Len(out) :
                        (out[i].msg.req = n /\ out[j].msg.req = m) => i < j)

\* Two synchronous requests and a notification were handled, the two responses
\* are on the stream in request order.
C16_Witness ==
  /\ nread = 3
  /\ SyncSlots = {1, 2}
  /\ ~last.isReq
  /\ mainPc = "read"
  /\ \E i \in ResponsesFor(1) : \E j \in ResponsesFor(2) : i < j

\* --------------------------------------------------------------------- C17
\* The worker of s is somewhere between its start and its reply.
Working(s) == wpc[s] \in {"start", "resolve", "grep", "forked", "reading", "check", "reply"}

\* C17: the dispatch of an asynchronous request puts the request's InFlight
\* object into the map under the id's key, starts the worker and leaves the
\* main thread at the head of its loop with nothing to write; and while a
\* worker is at work the main thread can dispatch a $/cancelRequest for it.
C17_RegisteredBeforeWorker ==
  /\ [][\A msg \in Requests :
          (msg.method \in AsyncMethods /\ handleMessage(msg)) =>
            /\ inflightKey(msg.id) \in DOMAIN inflight_'
            /\ inflight_'[inflightKey(msg.id)] = Len(reqs) + 1
            /\ wpc[Len(reqs) + 1] = "none" /\ wpc'[Len(reqs) + 1] = "start"
            /\ mainPc' = "read" /\ mainMsg' = NoMsg
            /\ UNCHANGED <<out, send_mu_>>]_vars
  /\ [](\A s \in AsyncSlots :
          (Working(s) /\ mainPc = "read" /\ ~exit_requested_ /\ nread < MaxMsgs) =>
            ENABLED handleMessage(Notification("$/cancelRequest", reqs[s].id, NoParams)))

\* The cancel that followed the request was dispatched while the request's
\* search child was running, and found the entry.
C17_Witness ==
  \E s \in AsyncSlots :
    /\ cancel_at[s].next
    /\ cancel_at[s].child = "running"
    /\ cancel_at[s].pc = "reading"

\* --------------------------------------------------------------------- C18
\* The positions in doc_log of the notifications that name uri and that the
\* server can read (params an object).
EventsFor(uri) ==
  {k \in 1..Len(doc_log) : ~ValueThrows(doc_log[k].arg) /\ doc_log[k].arg.uri = uri}

\* ... of those, the ones that carry a full text or close the document.
WritesFor(uri) == {k \in EventsFor(uri) : doc_log[k].arg.opt # "no_changes"}

Latest(ks) == CHOOSE k \in ks : \A j \in ks : j <= k

\* The store holds exactly what the latest of the events ks says: nothing if
\* there is none or it is a didClose, else its text.
StoreMatches(uri, ks) ==
  IF ks = {} \/ doc_log[Latest(ks)].method = "textDocument/didClose"
    THEN uri \notin DOMAIN docs_by_uri_
    ELSE /\ uri \in DOMAIN docs_by_uri_
         /\ docs_by_uri_[uri] = doc_log[Latest(ks)].arg.text

\* C18 (as stated): for each uri the store holds the text of the most recent
\* didOpen or didChange since the last didClose, and no entry if the last event
\* was a didClose or the uri was never opened.
C18_LastWriteWinsOnceOpened ==
  \A uri \in DocUris :
    IF \E k \in EventsFor(uri) : doc_log[k].method = "textDocument/didOpen"
      THEN StoreMatches(uri, WritesFor(uri))
      ELSE uri \notin DOMAIN docs_by_uri_

\* C18 (amended): for each uri the store holds the text of the most recent
\* didOpen or text-carrying didChange since the last didClose, whether or not
\* the uri was opened first, and no entry if the last of these events was a
\* didClose or there was none; it holds entries for no other uri.
C18_LastWriteWins ==
  /\ \A uri \in DocUris : StoreMatches(uri, WritesFor(uri))
  /\ DOMAIN docs_by_uri_ \subseteq DocUris

\* A document was opened, changed to another text and closed: its entry is gone.
C18_Witness ==
  /\ Len(doc_log) = 3
  /\ \E u, v \in DocUris :
       /\ u # v
       /\ doc_log[1].method = "textDocument/didOpen" /\ doc_log[1].arg.uri = u
       /\ doc_log[2].method = "textDocument/didChange" /\ doc_log[2].arg.uri = u
       /\ doc_log[2].arg.opt = "doc" /\ doc_log[2].arg.text # doc_log[1].arg.text
       /\ doc_log[3].method = "textDocument/didClose" /\ doc_log[3].arg.uri = u
       /\ doc_log[3].arg.opt = "doc"
       /\ u \notin DOMAIN docs_by_uri_

\* --------------------------------------------------------------------- C19
\* C19 (as stated): no handler holds or reads a document entry while the main
\* thread writes or erases it, and a handler that finds no entry returns its
\* empty result without a search.
C19_SerializedDocAccess ==
  \A s \in AsyncSlots :
    /\ wpc[s] = "resolve" => ~Raced(s)
    /\ seen[s] = "absent" => (child[s] = "none" /\ result[s] # "internal")

\* --------------------------------------------------------------------- C20
\* What the store held for uri after the first k logged notifications.
StoreValueAt(uri, k) ==
  LET ks == {j \in WritesFor(uri) : j <= k} IN
  IF ks = {} \/ doc_log[Latest(ks)].method = "textDocument/didClose"
    THEN "absent"
    ELSE doc_log[Latest(ks)].arg.text

\* What the store has held for the document of request s since every
\* notification that preceded the request had been processed.
VisibleSince(s) == {StoreValueAt(reqs[s].arg.uri, k) : k \in log_at[s]..Len(doc_log)}

\* A notification that wrote or erased the document of request s was processed
\* before the request was read.
ReadAfterNotification(s) ==
  \E k \in 1..log_at[s] : Mutates(doc_log[k], reqs[s].arg.uri)

\* C20 (as stated): the handler of a request read after such a notification
\* resolves its word from a state of the document that includes the
\* notification's effect: the state the notification left or a later one.
C20_NewWorkerSeesNotification ==
  \A s \in AsyncSlots :
    (ReadAfterNotification(s) /\ seen[s] # "unread") => seen[s] \in VisibleSince(s)

\* --------------------------------------------------------------------- C22
\* A body handleMessage cannot parse into a JSON object.
Unparsable(body) == body # <<>> /\ (is_discarded(body) \/ ~is_object(body))

\* C22: the iteration of the main loop that reads a body which is not JSON or
\* not a JSON object appends "Failed to parse JSON" to the log, writes nothing,
\* changes nothing of the session (requests, flags, documents, in-flight
\* entries, workers, pending reply) and leaves the main thread at the head of
\* its loop, not returned.
C22_ParseErrorSkipped ==
  [][\A r \in {readMessage(in_)} :
       (AtRead /\ r.kind = "message" /\ Unparsable(r.body)) =>
         /\ log_' = log_ \o r.logged \o <<"Failed to parse JSON">>
         /\ got' = Append(got, r.body)
         /\ mainPc' = "read"
         /\ exit_status' = NotReturned
         /\ UNCHANGED <<reqs, nread, last, mainMsg, shutdown_received_, exit_requested_,
                        clangd_file_status_, docs_by_uri_, inflight_, cancelled, grep_pid,
                        wpc, result, child, collected, send_mu_, out>>]_vars

\* A body that is not JSON and a JSON array were read, logged and skipped, and
\* the shutdown request that followed them was answered.
C22_Witness ==
  /\ got = <<NotJson, JsonArray, ShutdownBody>>
  /\ log_ = <<"Failed to parse JSON", "Failed to parse JSON">>
  /\ nread = 1
  /\ Cardinality(ResponsesFor(1)) = 1
  /\ mainPc = "read"

\* --------------------------------------------------------------------- C25
\* Every frame on the input was produced by writeMessage.
AllWritten == \A k \in 1..Len(sent) : sent[k].kind = "written"

\* The frames of `sent` that readMessage has not yet taken off the stream.
Unread == SubSeq(sent, Len(got) + 1, Len(sent))

\* C25: on a stream made of the outputs of writeMessage, the k-th call of
\* readMessage returns the k-th body, byte for byte, and leaves exactly the
\* frames after it on the stream; the loop never dies on such a stream, and when
\* it ends at the end of input every body has been returned.
C25_FramingRoundTrip ==
  AllWritten =>
    /\ Len(got) <= Len(sent)
    /\ \A k \in 1..Len(got) : got[k] = sent[k].body
    /\ in_ = Stream(Unread)
    /\ mainPc # "crashed"
    /\ (mainPc = "exited" /\ ~exit_requested_) => Len(got) = Len(sent)

\* Three written frames were read back: a body that looks like a header, a body
\* of line ends, and a 28-byte request.
C25_Witness ==
  /\ AllWritten
  /\ got = <<HeaderLike, BlankLines, ShutdownBody>>
  /\ in_ = <<>>
  /\ mainPc = "exited"

\* --------------------------------------------------------------------- C23
\* A frame without a body to read: its Content-Length is missing ("other",
\* "bare"), is not a number ("words", "negative") or is zero.
ZeroLength(f) ==
  \/ f.kind \in {"other", "bare", "words", "negative"}
  \/ f.kind = "written" /\ f.body = <<>>

\* A frame that is complete on the stream: written, or without a body.
Complete(f) == f.kind \in {"written", "lf"} \/ ZeroLength(f)

\* C23 (as stated): on a stream of complete frames, a frame whose Content-Length
\* is missing, unparsable or zero is read as the empty message and skipped; the
\* loop does not end on it: every frame is read as its body, in order, until
\* the end of input or an exit notification.
C23_EmptyFrameSkipped ==
  (\A k \in 1..Len(sent) : Complete(sent[k])) =>
    /\ mainPc # "crashed"
    /\ Len(got) <= Len(sent)
    /\ \A k \in 1..Len(got) : got[k] = sent[k].body
    /\ \A k \in 1..Len(got) : ZeroLength(sent[k]) => got[k] = <<>>
    /\ in_ = Stream(Unread)
    /\ (mainPc = "exited" /\ ~exit_requested_) => Len(got) = Len(sent)

\* --------------------------------------------------------------------- C24
\* A frame with a framing error: a body shorter than its Content-Length says,
\* a Content-Length that is no number, a header cut off.
FramingError(f) == f.kind \in {"short", "words", "cut"}

\* Frame k is the first one with a framing error.
FirstError(k) ==
  /\ k \in 1..Len(sent)
  /\ FramingError(sent[k])
  /\ \A j \in 1..(k - 1) : sent[j].kind \in {"written", "lf"}

\* C24 (as stated): after the first frame with a framing error no message is
\* read: readMessage returns no body for it or for any frame after it.
C24_FramingErrorEndsLoop ==
  \A k \in 1..Len(sent) : FirstError(k) => Len(got) < k

\* C24 (amended): the end of input before the end of the headers or before the
\* declared number of body bytes makes readMessage return nullopt, and the
\* loop ends there: that iteration reads and dispatches no message, and no step
\* follows the return of run. A frame cut short by the end of input is never
\* read, and a short body is logged as a short read. A Content-Length that is
\* no number does not end the loop: the frame is read as the empty message and
\* the frames after it are read in order.
C24_EndOfInputEndsLoop ==
  /\ [][\A r \in {readMessage(in_)} :
          (AtRead /\ r.kind = "nullopt") =>
            /\ mainPc' = "exited"
            /\ exit_status' = RunReturn
            /\ UNCHANGED <<got, nread, reqs, last, mainMsg, out, shutdown_received_,
                           exit_requested_>>]_vars
  /\ [][mainPc = "exited" => UNCHANGED vars]_vars
  /\ [](\A k \in 1..Len(sent) :
          (FirstError(k) /\ k = Len(sent) /\ sent[k].kind \in {"short", "cut"}) =>
            /\ Len(got) < k
            /\ (mainPc = "exited" /\ ~exit_requested_ /\ sent[k].kind = "short") =>
                 (Len(got) = k - 1 /\ log_ # <<>> /\ log_[Len(log_)] = "Short read"))
  /\ [](\A k \in 1..Len(sent) :
          (FirstError(k) /\ sent[k].kind = "words"
             /\ \A j \in (k + 1)..Len(sent) : sent[j].kind \in {"written", "lf"}) =>
            /\ Len(got) >= k => got[k] = <<>>
            /\ \A j \in (k + 1)..Len(got) : got[j] = sent[j].body
            /\ (mainPc = "exited" /\ ~exit_requested_) => Len(got) = Len(sent))

\* A request was answered, then the input ended inside the body of the next
\* frame: the short read was logged and run returned.
C24_Witness ==
  /\ Len(sent) = 2
  /\ sent[2].kind = "short"
  /\ got = <<ShutdownBody>>
  /\ log_ = <<"Short read">>
  /\ mainPc = "exited"
  /\ exit_status = 0

\* --------------------------------------------------------------------- C29
\* C29: a call of runGrep with an empty needle or with max_results <= 0 goes
\* from its first statement straight to its return: it never has a pipe or a
\* child, reads nothing and returns the empty sequence.
C29_ShortCircuit ==
  /\ []((rg.pc # "none" /\ (rg.needle = "" \/ rg.max_results <= 0))
        => /\ rg.pc \in {"entry", "returned"}
           /\ rg.pipefd = "none"
           /\ rg.child = "none"
           /\ rg.read = 0
           /\ rg.out = 0)
  /\ [][(rg.pc = "entry" /\ (rg.needle = "" \/ rg.max_results <= 0))
        => rg'.pc = "returned"]_vars

\* runGrep has returned from a call with a needle and max_results = 0.
C29_Witness ==
  /\ rg.pc = "returned"
  /\ rg.needle = "foo"
  /\ rg.max_results = 0
  /\ rg.pipefd = "none"
  /\ rg.out = 0

\* --------------------------------------------------------------------- C30
\* C30: runGrep never holds more than max_results matches; it reads only while
\* it holds fewer; the step that admits the max_results-th match takes it to
\* the kill; after the kill the child no longer runs, no line is read, and
\* runGrep returns exactly max_results matches; and whenever runGrep returns
\* after a fork the child has been reaped, the wait having blocked until the
\* child had ended.
C30_CapAtMaxResults ==
  /\ []((rg.pc # "none" /\ rg.max_results > 0)
        => /\ rg.out <= rg.max_results
           /\ rg.out = rg.collected
           /\ rg.pc = "getline" => rg.collected < rg.max_results
           /\ rg.pc = "kill" => (rg.out = rg.max_results /\ ~rg.signalled)
           /\ rg.out = rg.max_results =>
                /\ rg.pc \in {"kill", "fclose", "waitpid", "returned"}
                /\ rg.pc # "kill" => (rg.signalled /\ rg.child # "running")
           /\ rg.pc = "returned" => rg.child \in {"none", "reaped"}
           /\ (rg.pc = "returned" /\ rg.pipefd = "closed" /\ rg.child = "none") => rg.out = 0)
  /\ [][(rg.pc # "none" /\ rg.out = rg.max_results) => rg'.read = rg.read]_vars
  /\ [][(rg.pc = "waitpid" /\ rg'.pc # "waitpid") =>
          (rg.child \in {"exited", "killed"} /\ rg'.child = "reaped" /\ rg'.pc = "returned")]_vars

\* runGrep returned two matches under max_results = 2 while a third line was
\* still in the pipe: the child was killed while running and has been reaped.
C30_Witness ==
  /\ rg.pc = "returned"
  /\ rg.max_results = 2
  /\ rg.out = 2
  /\ rg.read = 2
  /\ rg.written = 3
  /\ rg.piped # <<>>
  /\ rg.signalled
  /\ rg.child = "reaped"

\* --------------------------------------------------------------------- C27
\* C27: the cancelled flag of an InFlight object is false until a
\* $/cancelRequest sets it: it is false while the object does not exist and
\* when the request is registered; no step takes it from true to false; and
\* the only step that changes it is the dispatch of a $/cancelRequest whose id
\* is the key of the object's entry.
C27_CancelledMonotonic ==
  /\ [](\A s \in Slots : wpc[s] = "none" => ~cancelled[s])
  /\ [][\A s \in Slots :
          /\ cancelled[s] => cancelled'[s]
          /\ (wpc[s] = "none" /\ wpc'[s] # "none") => ~cancelled'[s]
          /\ cancelled'[s] # cancelled[s] =>
               /\ ~last'.isReq /\ last'.method = "$/cancelRequest"
               /\ nread' = nread + 1
               /\ last'.id # NoId
               /\ inflightKey(last'.id) \in DOMAIN inflight_
               /\ inflight_[inflightKey(last'.id)] = s]_vars

\* A request was cancelled twice while its entry was in the map, its worker
\* has finished, and its flag is still set.
C27_Witness ==
  \E s \in AsyncSlots :
    /\ cancelled[s]
    /\ nread = 3
    /\ Len(reqs) = 1
    /\ last.method = "$/cancelRequest"
    /\ cancel_at[s].next
    /\ wpc[s] = "done"

\* --------------------------------------------------------------------- C28
\* The handler of s returned, so that its worker went on to check the flag: the
\* worker is past the check and did not get there through its catch (a handler
\* that throws does so before it searches).
HandlerReturned(s) ==
  /\ wpc[s] \in {"reply", "writing", "erase", "done"}
  /\ ~(result[s] = "internal" /\ collected[s] = 0)

\* The worker of s checked the flag and found it set: the flag was set while
\* the worker had not yet run the check.
CancelledAtCheck(s) ==
  /\ HandlerReturned(s)
  /\ cancel_at[s].pc \in {"start", "resolve", "grep", "forked", "reading", "check"}

\* The worker of s has checked the flag (its handler returned) and found it
\* false.
ClearAtCheck(s) ==
  /\ HandlerReturned(s)
  /\ cancel_at[s].pc \in {"never", "reply", "writing", "erase", "done"}

\* C28 (as stated): a worker that finds the flag set at its check emits error
\* -32800 "Request cancelled" and nothing else; a worker that finds it clear
\* emits the handler's result and nothing else.
C28_CheckDecidesReply ==
  \A s \in AsyncSlots :
    /\ CancelledAtCheck(s) =>
         \A i \in 1..Len(out) : out[i].msg.req = s =>
           out[i].msg = ErrorMsg(s, reqs[s].id, RequestCancelled, "Request cancelled")
    /\ ClearAtCheck(s) =>
         \A i \in 1..Len(out) : out[i].msg.req = s =>
           out[i].msg = ResultMsg(s, reqs[s].id, HandlerResult(Method(s), collected[s]))

\* C28 (amended): a worker that finds the flag set at its check emits error
\* -32800 "Request cancelled" and nothing else; a worker that finds it clear
\* never emits -32800: it emits the handler's result, which is the no-result
\* value if the search collected nothing, or, if the result cannot be
\* serialized, error -32603 in its place; either way one response at most.
C28_CheckDecidesReplyUnlessDumpThrows ==
  \A s \in AsyncSlots :
    /\ Cardinality(ResponsesFor(s)) <= 1
    /\ CancelledAtCheck(s) =>
         /\ result[s] = "cancelled"
         /\ \A i \in 1..Len(out) : out[i].msg.req = s =>
              out[i].msg = ErrorMsg(s, reqs[s].id, RequestCancelled, "Request cancelled")
    /\ ClearAtCheck(s) =>
         \A i \in 1..Len(out) : out[i].msg.req = s =>
           \/ out[i].msg = ResultMsg(s, reqs[s].id, HandlerResult(Method(s), collected[s]))
           \/ /\ collected[s] > 0
              /\ out[i].msg = ErrorMsg(s, reqs[s].id, InternalError, "Internal error: ")

\* One worker found its flag set after a search that had collected a match and
\* replied -32800; another found its flag clear and replied null.
C28_Witness ==
  \E s, r \in AsyncSlots :
    /\ CancelledAtCheck(s) /\ collected[s] > 0 /\ wpc[s] = "done"
    /\ \E i \in ResponsesFor(s) : out[i].msg.code = RequestCancelled
    /\ ClearAtCheck(r) /\ wpc[r] = "done"
    /\ \E i \in ResponsesFor(r) : out[i].msg.kind = "result" /\ out[i].msg.val = "null"

\* --------------------------------------------------------------------- C26
\* The main thread has a clangd.fileStatus notification to write.
Announces(uri) ==
  /\ mainPc' = "send"
  /\ mainMsg' = NotificationMsg("textDocument/clangd.fileStatus", uri, "Idle")

\* Nothing but a notification the main thread is writing reaches the output as
\* a notification.
OnlyAnnounced ==
  \A i \in 1..Len(out) :
    out[i].msg.kind = "notification" =>
      /\ out[i].msg.val = "textDocument/clangd.fileStatus"
      /\ out[i].msg.state = "Idle"
      /\ \E k \in 1..Len(doc_log) :
           /\ doc_log[k].method \in {"textDocument/didOpen", "textDocument/didChange"}
           /\ doc_log[k].arg.uri = out[i].msg.uri
      /\ \E n \in 1..Len(reqs) :
           reqs[n].method = "initialize" /\ reqs[n].arg.opt = "clangdFileStatus"

\* The notification the server is handling stores a text: it is a didOpen that
\* names a uri, or a didChange that names a uri and holds a content change.
StoresText(msg) ==
  /\ msg.method \in {"textDocument/didOpen", "textDocument/didChange"}
  /\ ~ValueThrows(msg.arg)
  /\ msg.arg.uri # ""
  /\ msg.arg.opt # "no_changes"

\* C26 (as stated): the dispatch of each didOpen and each didChange is followed
\* by a clangd.fileStatus notification {uri, "Idle"} if and only if the
\* clangdFileStatus option is set; no other step announces one.
C26_FileStatusAfterEachOpenOrChange ==
  [][nread' = nread + 1 =>
       IF last'.method \in {"textDocument/didOpen", "textDocument/didChange"} /\ ~last'.isReq
         THEN clangd_file_status_ <=> Announces(last'.arg.uri)
         ELSE mainMsg'.kind # "notification"]_vars

\* C26 (amended): the dispatch of a didOpen that names a uri, or of a didChange
\* that names a uri and holds at least one content change, is followed by a
\* clangd.fileStatus notification {uri, "Idle"} if and only if the flag is set
\* at that moment; no other message is followed by one, and none reaches the
\* output while the flag has never been set. The flag is set by an initialize
\* whose initializationOptions.clangdFileStatus is true, cleared by one whose
\* initializationOptions is an object without it, and kept by any other.
C26_FileStatusAfterStoredText ==
  /\ []OnlyAnnounced
  /\ [][nread' = nread + 1 =>
          /\ IF StoresText(last') /\ ~last'.isReq
               THEN clangd_file_status_ <=> Announces(last'.arg.uri)
               ELSE mainMsg'.kind # "notification"
          /\ clangd_file_status_' =
               IF last'.isReq /\ last'.method = "initialize"
                    /\ last'.arg.opt \in {"clangdFileStatus", "initializationOptions"}
                 THEN last'.arg.opt = "clangdFileStatus"
                 ELSE clangd_file_status_]_vars

\* The client asked for the file status, opened a document and changed it: two
\* notifications for that document followed the response to initialize.
C26_Witness ==
  /\ nread = 3
  /\ mainPc = "read"
  /\ clangd_file_status_
  /\ Len(out) = 6
  /\ out[2].msg.kind = "result"
  /\ out[4].msg = NotificationMsg("textDocument/clangd.fileStatus", "file:///a.c", "Idle")
  /\ out[6].msg = out[4].msg
  /\ doc_log[1].method = "textDocument/didOpen"
  /\ doc_log[2].method = "textDocument/didChange"

\* --------------------------------------------------------------------- C21
\* Where the line comment of a one-line C or C++ text begins (counted from 0),
\* or -1 if there is none: at the first "//" that stands outside a string
\* literal and outside a character literal.
RECURSIVE LineCommentStart(_, _, _)
LineCommentStart(cs, j, mode) ==
  IF j >= Len(cs) THEN 0 - 1
  ELSE CASE mode = "code" /\ at(cs, j) = "/" /\ j + 1 < Len(cs) /\ at(cs, j + 1) = "/" -> j
         [] mode = "code" /\ at(cs, j) = "\"" -> LineCommentStart(cs, j + 1, "string")
         [] mode = "code" /\ at(cs, j) = "'" -> LineCommentStart(cs, j + 1, "char")
         [] mode # "code" /\ at(cs, j) = "\\" -> LineCommentStart(cs, j + 2, mode)
         [] mode = "string" /\ at(cs, j) = "\"" -> LineCommentStart(cs, j + 1, "code")
         [] mode = "char" /\ at(cs, j) = "'" -> LineCommentStart(cs, j + 1, "code")
         [] OTHER -> LineCommentStart(cs, j + 1, mode)

\* The cursor (0, ch0) stands inside the line comment of text.
CursorInComment(text, ch0) ==
  /\ LineCommentStart(Chars(text), 0, "code") >= 0
  /\ Min(ch0, Len(Chars(text))) >= LineCommentStart(Chars(text), 0, "code")

\* The handler of s has read its input and gone on to the search or returned.
Resolved(s) == wpc[s] \notin {"none", "start", "resolve"}

\* The input of request s is one of the claim's cases: no uri, no open document
\* under the uri, or a text the handler read in which the word under the cursor
\* is empty or a stop word or the cursor is inside a line comment; for
\* workspace/symbol, an empty query.
BadInput(s) ==
  IF Method(s) = "workspace/symbol"
    THEN Query(reqs[s].arg) = ""
    ELSE /\ ~ValueThrows(reqs[s].arg)
         /\ \/ reqs[s].arg.uri = ""
            \/ seen[s] = "absent"
            \/ /\ seen[s] \in CursorTexts
               /\ \/ isStopWord(wordAt(seen[s], 0, reqs[s].arg.ch))
                  \/ CursorInComment(seen[s], reqs[s].arg.ch)

\* No search child was spawned for s and s replies nothing but its no-result
\* value.
NoResultNoSpawn(s) ==
  /\ child[s] = "none"
  /\ grep_pid[s] = NoPid
  /\ collected[s] = 0
  /\ wpc[s] # "grep"
  /\ \A i \in 1..Len(out) : out[i].msg.req = s =>
       out[i].msg = ResultMsg(s, reqs[s].id, NoResult(Method(s)))

C31_ReapedAndClosedOnce ==
  /\ rg.pc # "none" =>
       /\ rg.close0 <= 1 /\ rg.close1 <= 1 /\ rg.waits <= 1
       /\ rg.waits = 1 <=> rg.child = "reaped"
  /\ rg.pc = "returned" =>
       /\ rg.child \in {"none", "reaped"}
       /\ IF rg.pipefd = "none"
            THEN rg.close0 = 0 /\ rg.close1 = 0
            ELSE rg.close0 = 1 /\ rg.close1 = 1

\* fdopen failed after the child had printed a line: the caller closed both
\* ends, signalled the child, waited for it and returned without a match.
C31_Witness ==
  /\ rg.pc = "returned"
  /\ rg.child = "reaped"
  /\ rg.signalled
  /\ rg.read = 0
  /\ rg.written > 0
  /\ rg.close0 = 1 /\ rg.close1 = 1 /\ rg.waits = 1

\* --------------------------------------------------------------------- C32
\* C32 (as stated): a line of the search tool's output becomes a match only if
\* it holds two ':' separators and its middle field parses as a positive
\* integer, so that every match has line >= 1.
C32_MatchHasPositiveLine ==
  call.pc = "pushed" =>
    /\ splitFirstTwoColons(Chomp(call.line)).ok
    /\ ~stoi(splitFirstTwoColons(Chomp(call.line)).b).throws
    /\ call.lineno >= 1

\* --------------------------------------------------------------------- C33
\* The maximal runs of word characters of a line, as pairs of the column where
\* the run starts and the column after its end.
Runs(ln) ==
  {r \in (0..Len(ln)) \X (0..Len(ln)) :
     /\ r[1] < r[2]
     /\ \A k \in r[1]..(r[2] - 1) : is_word(at(ln, k))
     /\ r[1] = 0 \/ ~is_word(at(ln, r[1] - 1))
     /\ r[2] = Len(ln) \/ ~is_word(at(ln, r[2]))}

\* The runs that cover the column col or end right before it.
Adjacent(ln, col) == {r \in Runs(ln) : r[1] <= col /\ col <= r[2]}

\* The word the claim expects at a column of a line: the run that covers the
\* cursor or ends right before it, empty if there is none. A column past the
\* end of the line counts as the end of the line.
ExpectedWord(ln, ch0) ==
  IF Adjacent(ln, Min(ch0, Len(ln))) = {} THEN <<>>
  ELSE LET r == CHOOSE r \in Adjacent(ln, Min(ch0, Len(ln))) : TRUE
       IN SubSeq(ln, r[1] + 1, r[2])

\* C33 (as stated): on a line it finds, wordAt returns the maximal run of
\* [A-Za-z0-9_] that covers the cursor or ends right before it, and the empty
\* string if no such run is adjacent to the cursor; it returns the empty
\* string if it does not find the line.
C33_WordAtCursor ==
  call.pc \in {"empty", "word"} =>
    call.word = IF call.line0 >= 0 /\ call.ch0 >= 0 /\ LineOf(call.text, call.line0).found
                  THEN ExpectedWord(LineOf(call.text, call.line0).ln, call.ch0)
                  ELSE <<>>

\* --------------------------------------------------------------------- C34
\* The key (score, abs_path, line, column) of two ranked matches is equal.
SameKey(a, b) ==
  /\ a.score = b.score /\ a.abs_path = b.abs_path
  /\ a.m.line = b.m.line /\ a.m.column = b.m.column

\* a comes no later than b in the order score descending, path ascending,
\* line ascending, column ascending.
KeyOrdered(a, b) ==
  \/ a.score > b.score
  \/ a.score = b.score /\ PathLess(a.abs_path, b.abs_path)
  \/ a.score = b.score /\ a.abs_path = b.abs_path /\ a.m.line < b.m.line
  \/ a.score = b.score /\ a.abs_path = b.abs_path /\ a.m.line = b.m.line
       /\ a.m.column <= b.m.column

Ranked == call.pc \in {"ranked", "done"} /\ call.ranked # <<>>

\* C34: the ranker's output is ordered by score descending, absolute path
\* ascending, line ascending, column ascending, and two matches with an equal
\* key stand in the order they had in the input.
C34_RankedOrderStable ==
  Ranked =>
    \A i \in 1..Len(call.ranked) : \A j \in (i + 1)..Len(call.ranked) :
      /\ KeyOrdered(call.ranked[i], call.ranked[j])
      /\ SameKey(call.ranked[i], call.ranked[j]) => call.ranked[i].idx < call.ranked[j].idx

\* Three matches are ranked: two with an equal key and different texts, and a
\* third that the input had first and the output has last.
C34_Witness ==
  /\ Ranked
  /\ Len(call.ranked) = 3
  /\ SameKey(call.ranked[1], call.ranked[2])
  /\ call.ranked[1].m # call.ranked[2].m
  /\ call.ranked[3].idx = 1
  /\ call.ranked[3].score < call.ranked[1].score

\* --------------------------------------------------------------------- C35
\* The positions of the strong matches of the ranked list.
StrongPositions == {i \in 1..Len(call.ranked) : call.ranked[i].score >= StrongScore}

DefinitionDone == call.pc = "done" /\ call.handler = "textDocument/definition"

\* C35: textDocument/definition returns the location of the strong match alone
\* when exactly one ranked match has a score of 60 or more, and the locations
\* of all ranked matches in ranked order when none or several have.
C35_DefinitionSingleStrong ==
  DefinitionDone =>
    call.result.locs =
      IF Cardinality(StrongPositions) = 1
        THEN <<Location(call.ranked[CHOOSE i \in StrongPositions : TRUE], call.needle)>>
        ELSE Locations(call.ranked, call.needle)

\* Definition has answered with one location out of three ranked matches, one
\* of them strong.
C35_Witness ==
  /\ DefinitionDone
  /\ Len(call.ranked) = 3
  /\ Cardinality(StrongPositions) = 1
  /\ Len(call.result.locs) = 1

\* Definition has answered with every location: two of the ranked matches are
\* strong.
C35_WitnessSeveral ==
  /\ DefinitionDone
  /\ Cardinality(StrongPositions) = 2
  /\ Len(call.result.locs) = 3

\* --------------------------------------------------------------------- C36
\* C36 (as stated): when textDocument/definition ranks, no match's score holds
\* the bonus of the preferred path: the score is that of the match's line.
C36_DefinitionUnbiased ==
  call.pc \in {"ranked", "done"} /\ call.handler = "textDocument/definition" =>
    \A i \in 1..Len(call.ranked) :
      call.ranked[i].score =
        scoreMatchLine(call.ranked[i].m.text, call.ranked[i].m.column, call.needle)

\* --------------------------------------------------------------------- C37
\* The step dispatches a $/cancelRequest.
CancelStep ==
  /\ nread' = nread + 1
  /\ ~last'.isReq
  /\ last'.method = "$/cancelRequest"

\* C37: the dispatch of a $/cancelRequest whose id has an in-flight entry sets
\* the cancelled flag of that entry's object and of no other, writes nothing
\* and queues no message, leaves the in-flight map and the document store as
\* they are, kills the child whose pid the object publishes if that pid is
\* positive, and signals no process otherwise.
C37_CancelAffectsOnlyItsEntry ==
  [][(CancelStep /\ LookupInflight(last'.id) # 0) =>
       /\ cancelled'[LookupInflight(last'.id)]
       /\ \A r \in Slots \ {LookupInflight(last'.id)} : cancelled'[r] = cancelled[r]
       /\ out' = out /\ mainMsg' = mainMsg /\ mainPc' = mainPc /\ send_mu_' = send_mu_
       /\ inflight_' = inflight_
       /\ grep_pid' = grep_pid
       /\ docs_by_uri_' = docs_by_uri_
       /\ grep_pid[LookupInflight(last'.id)] <= 0 => child' = child
       /\ grep_pid[LookupInflight(last'.id)] > 0 =>
            /\ child[grep_pid[LookupInflight(last'.id)]] = "running" =>
                 child'[grep_pid[LookupInflight(last'.id)]] = "killed"
            /\ \A c \in Slots \ {grep_pid[LookupInflight(last'.id)]} : child'[c] = child[c]]_vars

\* A $/cancelRequest has just killed the child of one request while a second
\* request with another id is in flight, its child running and its flag clear.
C37_Witness ==
  /\ ~last.isReq /\ last.method = "$/cancelRequest"
  /\ \E s, r \in AsyncSlots :
       /\ s # r
       /\ reqs[s].id = last.id /\ reqs[r].id # last.id
       /\ cancelled[s] /\ child[s] = "killed"
       /\ ~cancelled[r] /\ child[r] = "running"
       /\ DOMAIN inflight_ = {inflightKey(reqs[s].id), inflightKey(reqs[r].id)}

\* --------------------------------------------------------------------- C38
\* C38: at the head of its loop the main thread can leave it whatever the
\* workers are doing (after an exit notification, or when readMessage returns
\* nothing); the step that returns from Server::run changes no worker and
\* writes nothing; and once it has returned nothing more is written, so a
\* request whose worker had not replied by then has no response.
C38_RunDoesNotWaitForWorkers ==
  /\ [](mainPc = "read" => IF exit_requested_ THEN ENABLED LoopExit ELSE ENABLED ReadEof)
  /\ [][(mainPc # "exited" /\ mainPc' = "exited") =>
          (wpc' = wpc /\ out' = out /\ inflight_' = inflight_)]_vars
  /\ [][mainPc = "exited" => (out' = out /\ wpc' = wpc)]_vars

\* Server::run has returned after an exit notification while a worker was
\* reading its search's output: nothing with that request's id is on the stream.
C38_Witness ==
  /\ mainPc = "exited"
  /\ ~last.isReq /\ last.method = "exit"
  /\ \E s \in AsyncSlots :
       /\ wpc[s] = "reading"
       /\ ResponsesFor(s) = {}
       /\ inflightKey(reqs[s].id) \in DOMAIN inflight_

\* --------------------------------------------------------------------- C39
\* Two asynchronous requests with the same id have been dispatched.
SameIdTwice ==
  /\ Len(reqs) = 2
  /\ AsyncSlots = {1, 2}
  /\ reqs[1].id = reqs[2].id

\* The step dispatches a $/cancelRequest for the id of the two requests.
CancelsSharedId == SameIdTwice /\ CancelStep /\ last'.id = reqs[2].id

\* C39: once a second asynchronous request with the id of a first one has been
\* dispatched, the entry of the id, while there is one, is the second
\* request's; a $/cancelRequest for the id sets the second request's flag and
\* leaves the first's as it is; the first worker's erase removes the entry;
\* and a $/cancelRequest that finds no entry sets no flag and signals no child.
C39_DuplicateIdSingleEntry ==
  /\ []((SameIdTwice /\ inflightKey(reqs[2].id) \in DOMAIN inflight_) =>
          inflight_[inflightKey(reqs[2].id)] = 2)
  /\ [][(CancelsSharedId /\ inflightKey(reqs[2].id) \in DOMAIN inflight_) =>
          (cancelled'[2] /\ cancelled'[1] = cancelled[1])]_vars
  /\ [][(SameIdTwice /\ wpc[1] = "erase" /\ wpc'[1] = "done") =>
          inflightKey(reqs[2].id) \notin DOMAIN inflight_']_vars
  /\ [][(CancelsSharedId /\ inflightKey(reqs[2].id) \notin DOMAIN inflight_) =>
          (cancelled' = cancelled /\ child' = child)]_vars

\* The first worker has finished and erased the entry while the second
\* request's search is running: the $/cancelRequest just dispatched for the id
\* found nothing, the second request's flag is clear and its child runs on.
C39_Witness ==
  /\ SameIdTwice
  /\ wpc[1] = "done"
  /\ wpc[2] = "reading" /\ child[2] = "running"
  /\ inflightKey(reqs[2].id) \notin DOMAIN inflight_
  /\ ~last.isReq /\ last.method = "$/cancelRequest" /\ last.id = reqs[2].id
  /\ ~cancelled[2]

\* --------------------------------------------------------------------- C40
\* The step dispatches a didOpen, didChange or didClose notification.
DocStep == nread' = nread + 1 /\ ~last'.isReq /\ last'.method \in DocNotificationMethods

\* C40: a didChange that names a uri and carries a change makes the text of
\* its first change the text of that uri, whether the store had the uri or not,
\* and leaves the other documents alone; a didChange without a change, and a
\* didOpen, didChange or didClose without a uri, leaves the store as it is,
\* queues no notification and writes nothing.
C40_DidChangeStoresFirstChange ==
  /\ [][(DocStep /\ last'.method = "textDocument/didChange"
           /\ last'.arg.opt = "doc" /\ last'.arg.uri # "") =>
          /\ DOMAIN docs_by_uri_' = DOMAIN docs_by_uri_ \cup {last'.arg.uri}
          /\ docs_by_uri_'[last'.arg.uri] = last'.arg.text
          /\ \A u \in DOMAIN docs_by_uri_ \ {last'.arg.uri} :
               docs_by_uri_'[u] = docs_by_uri_[u]]_vars
  /\ [][(DocStep /\ (last'.arg.uri = ""
                       \/ (last'.method = "textDocument/didChange"
                             /\ last'.arg.opt = "no_changes"))) =>
          (docs_by_uri_' = docs_by_uri_ /\ mainMsg' = mainMsg /\ out' = out)]_vars

\* The client asked for the file status; a didChange with two changes for a uri
\* that was never opened made its entry and was announced; the didChange without a change
\* that followed left the text and announced nothing.
C40_Witness ==
  /\ clangd_file_status_
  /\ Len(doc_log) = 2
  /\ doc_log[1].method = "textDocument/didChange"
  /\ doc_log[1].arg = TwoChanges(doc_log[1].arg.uri, "foo", "if")
  /\ doc_log[2].method = "textDocument/didChange" /\ doc_log[2].arg.opt = "no_changes"
  /\ doc_log[2].arg.uri = doc_log[1].arg.uri
  /\ docs_by_uri_ = (doc_log[1].arg.uri :> doc_log[1].arg.text)
  /\ mainPc = "read"
  /\ Cardinality({i \in 1..Len(out) : out[i].part = "body" /\ out[i].msg.kind = "notification"}) = 1

====
